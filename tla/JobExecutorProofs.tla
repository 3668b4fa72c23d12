-------------------------- MODULE JobExecutorProofs --------------------------
(***************************************************************************)
(* Proofs about JobExecutor for every set of jobs, every pool size, every  *)
(* retry, preemption and crash bound and every setting.                    *)
(***************************************************************************)
EXTENDS JobExecutor, FiniteSetTheorems, TLAPS

\* A start that is still owed to job j: it waits in the queue, or the poll thread
\* has picked it and not yet started it (its row may have changed since).
StartOwed(j) ==
    \/ status[j] \in {"absent", "pending", "deferred"}
    \/ poll.job = j /\ poll.pc \in {"admit", "scan", "requeue", "mark", "start"}

\* The inductive strengthening of ExecutionBudget: a start that is owed is
\* already paid for.
BudgetInv ==
    \A j \in Jobs :
        dispatched[j] + (IF StartOwed(j) THEN 1 ELSE 0)
            <= 1 + retries[j] + preemptions[j] + recovered[j]

\* What the routing of a failed job does to the jobs table: it charges a retry
\* and requeues, or finds the retries used up and buries the job.
LEMMA RouteLemma ==
    ASSUME NEW j \in Jobs, TypeOK, RetryBudget, Route(j)
    PROVE  /\ status' \in [Jobs -> Statuses]
           /\ retries' \in [Jobs -> Nat]
           /\ backoff' \subseteq Jobs
           /\ RetryBudget'
           /\ status'[j] \in {"pending", "dead"}
           /\ \A i \in Jobs : i # j => status'[i] = status[i] /\ retries'[i] = retries[i]
           /\ \/ status'[j] = "pending" /\ retries'[j] = retries[j] + 1
              \/ status'[j] = "dead" /\ retries'[j] = retries[j]
  <1>1. /\ retries[j] \in Nat /\ MaxRetries[j] \in Nat
        /\ retries[j] <= MaxRetries[j]
    BY ConstantsAssumption DEF TypeOK, RetryBudget
  <1>2. CASE retries[j] < MaxRetries[j]
    <2>1. /\ status' = [status EXCEPT ![j] = "pending"]
          /\ retries' = [retries EXCEPT ![j] = @ + 1]
          /\ backoff' = backoff \cup {j}
      BY <1>2 DEF Route
    <2>2. QED
      BY <1>1, <1>2, <2>1, ConstantsAssumption DEF TypeOK, RetryBudget, Statuses
  <1>3. CASE ~(retries[j] < MaxRetries[j])
    <2>1. /\ status' = [status EXCEPT ![j] = "dead"]
          /\ retries' = retries /\ backoff' = backoff
      BY <1>3 DEF Route
    <2>2. retries[j] = MaxRetries[j]
      BY <1>1, <1>3
    <2>3. /\ status' \in [Jobs -> Statuses]
          /\ status'[j] = "dead"
          /\ \A i \in Jobs : i # j => status'[i] = status[i]
      BY <2>1 DEF TypeOK, Statuses
    <2>4. RetryBudget'
      BY <2>1, <2>2, <2>3 DEF RetryBudget
    <2>5. QED
      BY <2>1, <2>3, <2>4 DEF TypeOK
  <1>4. QED
    BY <1>2, <1>3

\* The daemon's rows, registers and workers keep their types, and no job spends
\* more retries than it has, whatever the threads do.
THEOREM TypeCorrect == Spec => [](TypeOK /\ RetryBudget)
  <1>1. Init => TypeOK /\ RetryBudget
    BY ConstantsAssumption
    DEF Init, TypeOK, RetryBudget, At, PollAt, IdleThread, Run, Statuses, PollSteps, Stages
  <1>2. TypeOK /\ RetryBudget /\ [Next]_vars => TypeOK' /\ RetryBudget'
    <2> SUFFICES ASSUME TypeOK, RetryBudget, [Next]_vars
                 PROVE  TypeOK' /\ RetryBudget'
      OBVIOUS
    <2> USE DEF vars, rows, counters, daemon, history, At, PollAt, Statuses, PollSteps,
                Stages, IdleThread, Run, Go
    <2>1. ASSUME NEW j \in Jobs, Submit(j) \/ Cancel(j) \/ ResumeDeferred(j)
          PROVE  TypeOK' /\ RetryBudget'
      BY <2>1, ConstantsAssumption DEF Submit, Cancel, ResumeDeferred, TypeOK, RetryBudget
    <2>2. ASSUME NEW j \in Jobs, BackoffElapses(j) PROVE TypeOK' /\ RetryBudget'
      BY <2>2 DEF BackoffElapses, TypeOK, RetryBudget
    <2>3. CASE PollSkip
      BY <2>3 DEF PollSkip, CleanedRunning, TypeOK, RetryBudget
    <2>4. ASSUME NEW j \in Jobs, PollPick(j) PROVE TypeOK' /\ RetryBudget'
      BY <2>4 DEF PollPick, CleanedRunning, TypeOK, RetryBudget
    <2>5. CASE Refuse
      BY <2>5 DEF Refuse, TypeOK, RetryBudget
    <2>6. CASE DeferOnAdmit
      BY <2>6 DEF DeferOnAdmit, TypeOK, RetryBudget
    <2>7. CASE Admit
      BY <2>7 DEF Admit, TypeOK, RetryBudget
    <2>8. ASSUME NEW v \in Jobs, ScanVictim(v) PROVE TypeOK' /\ RetryBudget'
      BY <2>8 DEF ScanVictim, TypeOK, RetryBudget
    <2>9. CASE ScanNone
      BY <2>9 DEF ScanNone, TypeOK, RetryBudget
    <2>10. CASE RequeueVictim
      BY <2>10 DEF RequeueVictim, TypeOK, RetryBudget
    <2>11. CASE MarkVictim
      BY <2>11 DEF MarkVictim, TypeOK, RetryBudget
    <2>12. CASE StartJob
      BY <2>12 DEF StartJob, TypeOK, RetryBudget
    <2>13. ASSUME NEW t \in Threads, SubmitToPool(t) PROVE TypeOK' /\ RetryBudget'
      BY <2>13, ConstantsAssumption DEF SubmitToPool, TypeOK, RetryBudget
    <2>14. CASE Register
      BY <2>14 DEF Register, TypeOK, RetryBudget
    <2>15. ASSUME NEW t \in Threads, WorkerStep(t) PROVE TypeOK' /\ RetryBudget'
      <3>1. worker[t].stage # "idle" /\ worker[t].job \in Jobs
        BY <2>15 DEF WorkerStep, CheckCommandStops, Spawn, SpawnRaises, ProcessExits, TimesOut,
              ReadPreempted, RecordResult, TailEnds, TailRaises, HandleException, Finally, TypeOK
      <3>2. CASE CheckCommandStops(t)
        BY <3>1, <3>2 DEF CheckCommandStops, TypeOK, RetryBudget
      <3>3. CASE Spawn(t) \/ SpawnRaises(t) \/ TailEnds(t) \/ TailRaises(t)
        BY <3>1, <3>3 DEF Spawn, SpawnRaises, TailEnds, TailRaises, TypeOK, RetryBudget
      <3>4. CASE ProcessExits(t)
        <4>1. PICK rc \in {0, 1} :
                 worker' = [worker EXCEPT ![t] = Run(@.job, "exited", rc)]
          BY <3>4 DEF ProcessExits
        <4>2. worker' \in [Threads -> [job : Jobs \cup {NoJob}, stage : Stages, rc : {0, 1}]]
          BY <4>1 DEF TypeOK
        <4>3. \A u \in Threads : worker'[u].stage = "idle" <=> worker'[u].job = NoJob
          BY <3>1, <4>1, ConstantsAssumption DEF TypeOK
        <4>4. QED
          BY <3>4, <4>2, <4>3 DEF ProcessExits, TypeOK, RetryBudget
      <3>5. CASE ReadPreempted(t)
        BY <3>1, <3>5 DEF ReadPreempted, TypeOK, RetryBudget
      <3>6. CASE TimesOut(t)
        BY <3>1, <3>6, RouteLemma DEF TimesOut, TypeOK
      <3>7. CASE RecordResult(t)
        <4>1. CASE worker[t].rc = 0
          BY <3>1, <3>7, <4>1 DEF RecordResult, TypeOK, RetryBudget
        <4>2. CASE worker[t].rc # 0
          <5>1. Route(worker[t].job)
            BY <3>7, <4>2 DEF RecordResult
          <5>2. QED
            BY <3>1, <3>7, <5>1, RouteLemma DEF RecordResult, TypeOK
        <4>3. QED
          BY <4>1, <4>2
      <3>8. CASE HandleException(t)
        BY <3>1, <3>8, RouteLemma DEF HandleException, TypeOK
      <3>9. CASE Finally(t)
        BY <3>1, <3>9 DEF Finally, TypeOK, RetryBudget
      <3>10. QED
        BY <2>15, <3>2, <3>3, <3>4, <3>5, <3>6, <3>7, <3>8, <3>9 DEF WorkerStep
    <2>16. CASE Crash
      BY <2>16 DEF Crash, TypeOK, RetryBudget
    <2>17. CASE Restart \/ RecoveryEnds
      BY <2>17 DEF Restart, RecoveryEnds, TypeOK, RetryBudget
    <2>18. ASSUME NEW j \in Jobs, RecoverOrphan(j) PROVE TypeOK' /\ RetryBudget'
      BY <2>18 DEF RecoverOrphan, TypeOK, RetryBudget
    <2>19. CASE UNCHANGED vars
      BY <2>19 DEF TypeOK, RetryBudget
    <2>20. QED
      BY <2>1, <2>2, <2>3, <2>4, <2>5, <2>6, <2>7, <2>8, <2>9, <2>10, <2>11, <2>12, <2>13,
         <2>14, <2>15, <2>16, <2>17, <2>18, <2>19
      DEF Next, ApiStep, PollStep, RecoveryStep
  <1>3. QED
    BY <1>1, <1>2, PTL DEF Spec

\* Every start of a job is paid for by its submission, a retry, a preemption or
\* an orphan reset, with any number of workers, crashes and preemptions.
THEOREM BudgetKept == Spec => []ExecutionBudget
  <1>1. Init => BudgetInv
    BY DEF Init, BudgetInv, StartOwed, At, PollAt
  <1>2. TypeOK /\ RetryBudget /\ BudgetInv /\ [Next]_vars => BudgetInv'
    <2> SUFFICES ASSUME TypeOK, RetryBudget, BudgetInv, [Next]_vars, NEW k \in Jobs
                 PROVE  dispatched'[k] + (IF StartOwed(k)' THEN 1 ELSE 0)
                          <= 1 + retries'[k] + preemptions'[k] + recovered'[k]
      BY DEF BudgetInv
    <2> DEFINE Goal == dispatched'[k] + (IF StartOwed(k)' THEN 1 ELSE 0)
                          <= 1 + retries'[k] + preemptions'[k] + recovered'[k]
    <2>a. /\ dispatched[k] \in Nat /\ retries[k] \in Nat
          /\ preemptions[k] \in Nat /\ recovered[k] \in Nat
          /\ dispatched[k] + (IF StartOwed(k) THEN 1 ELSE 0)
                <= 1 + retries[k] + preemptions[k] + recovered[k]
      BY DEF TypeOK, BudgetInv
    <2>b. ASSUME UNCHANGED <<retries, preemptions, history>>, StartOwed(k)' => StartOwed(k)
          PROVE  Goal
      BY <2>a, <2>b DEF history
    <2> USE DEF vars, rows, counters, daemon, history, At, PollAt
    <2>1. ASSUME NEW j \in Jobs, Submit(j) \/ Cancel(j) \/ ResumeDeferred(j)
          PROVE  Goal
      <3>1. StartOwed(k)' => StartOwed(k)
        BY <2>1 DEF Submit, Cancel, ResumeDeferred, StartOwed, TypeOK
      <3>2. QED
        BY <2>1, <2>b, <3>1 DEF Submit, Cancel, ResumeDeferred
    <2>2. ASSUME NEW j \in Jobs, BackoffElapses(j) PROVE Goal
      BY <2>2, <2>b DEF BackoffElapses, StartOwed
    <2>3. CASE PollSkip
      BY <2>3, <2>b DEF PollSkip, StartOwed
    <2>4. ASSUME NEW j \in Jobs, PollPick(j) PROVE Goal
      <3>1. status[j] = "pending"
        BY <2>4 DEF PollPick, MostUrgent, Eligible
      <3>2. StartOwed(k)' => StartOwed(k)
        BY <2>4, <3>1 DEF PollPick, StartOwed
      <3>3. QED
        BY <2>4, <2>b, <3>2 DEF PollPick
    <2>5. CASE Refuse
      BY <2>5, <2>b DEF Refuse, StartOwed
    <2>6. CASE DeferOnAdmit
      <3>1. StartOwed(k)' => StartOwed(k)
        BY <2>6 DEF DeferOnAdmit, StartOwed, TypeOK
      <3>2. QED
        BY <2>6, <2>b, <3>1 DEF DeferOnAdmit
    <2>7. CASE Admit
      BY <2>7, <2>b DEF Admit, StartOwed
    <2>8. ASSUME NEW v \in Jobs, ScanVictim(v) PROVE Goal
      BY <2>8, <2>b DEF ScanVictim, StartOwed
    <2>9. CASE ScanNone
      BY <2>9, <2>b DEF ScanNone, StartOwed
    <2>10. CASE RequeueVictim
      <3>1. CASE k = poll.victim
        BY <2>10, <2>a, <3>1 DEF RequeueVictim, TypeOK
      <3>2. CASE k # poll.victim
        <4>1. preemptions'[k] = preemptions[k] /\ status'[k] = status[k]
          BY <2>10, <3>2 DEF RequeueVictim, TypeOK
        <4>2. StartOwed(k)' => StartOwed(k)
          BY <2>10, <4>1 DEF RequeueVictim, StartOwed
        <4>3. QED
          BY <2>10, <2>a, <4>1, <4>2 DEF RequeueVictim
      <3>3. QED
        BY <3>1, <3>2
    <2>11. CASE MarkVictim
      BY <2>11, <2>b DEF MarkVictim, StartOwed
    <2>12. CASE StartJob
      <3>1. CASE k = poll.job
        <4>1. StartOwed(k) /\ ~StartOwed(k)'
          BY <2>12, <3>1 DEF StartJob, StartOwed, TypeOK
        <4>2. dispatched'[k] = dispatched[k] + 1
          BY <2>12, <3>1 DEF StartJob, TypeOK
        <4>3. QED
          BY <2>12, <2>a, <4>1, <4>2 DEF StartJob
      <3>2. CASE k # poll.job
        <4>1. dispatched'[k] = dispatched[k] /\ status'[k] = status[k]
          BY <2>12, <3>2 DEF StartJob, TypeOK
        <4>2. StartOwed(k)' => StartOwed(k)
          BY <2>12, <4>1 DEF StartJob, StartOwed
        <4>3. QED
          BY <2>12, <2>a, <4>1, <4>2 DEF StartJob
      <3>3. QED
        BY <3>1, <3>2
    <2>13. ASSUME NEW t \in Threads, SubmitToPool(t) PROVE Goal
      BY <2>13, <2>b DEF SubmitToPool, StartOwed
    <2>14. CASE Register
      BY <2>14, <2>b DEF Register, StartOwed
    <2>15. ASSUME NEW t \in Threads, WorkerStep(t) PROVE Goal
      <3>1. worker[t].stage # "idle" => worker[t].job \in Jobs
        BY DEF TypeOK
      <3>2. ASSUME Route(worker[t].job), worker[t].job \in Jobs,
                   UNCHANGED <<preemptions, poll, history>>
            PROVE  Goal
        <4>1. /\ retries'[k] \in Nat
              /\ \/ k # worker[t].job /\ status'[k] = status[k] /\ retries'[k] = retries[k]
                 \/ status'[k] = "pending" /\ retries'[k] = retries[k] + 1
                 \/ status'[k] = "dead" /\ retries'[k] = retries[k]
          BY <3>2, RouteLemma
        <4>2. CASE retries'[k] = retries[k] + 1
          BY <2>a, <3>2, <4>2
        <4>3. CASE retries'[k] = retries[k] /\ status'[k] \in {status[k], "dead"}
          <5>1. StartOwed(k)' => StartOwed(k)
            BY <3>2, <4>3 DEF StartOwed
          <5>2. QED
            BY <2>a, <3>2, <4>3, <5>1
        <4>4. QED
          BY <4>1, <4>2, <4>3
      <3>3. ASSUME NEW j \in Jobs, status' = [status EXCEPT ![j] = "completed"],
                   UNCHANGED <<counters, poll, history>>
            PROVE  Goal
        <4>1. StartOwed(k)' => StartOwed(k)
          BY <3>3 DEF StartOwed, TypeOK
        <4>2. QED
          BY <3>3, <4>1, <2>b
      <3>4. CASE CheckCommandStops(t)
        BY <3>1, <3>3, <3>4 DEF CheckCommandStops
      <3>5. CASE Spawn(t) \/ SpawnRaises(t) \/ TailEnds(t) \/ TailRaises(t)
        BY <3>5, <2>b DEF Spawn, SpawnRaises, TailEnds, TailRaises, StartOwed
      <3>6. CASE ProcessExits(t) \/ ReadPreempted(t) \/ Finally(t)
        BY <3>6, <2>b DEF ProcessExits, ReadPreempted, Finally, StartOwed
      <3>7. CASE TimesOut(t) \/ HandleException(t)
        BY <3>1, <3>2, <3>7 DEF TimesOut, HandleException
      <3>8. CASE RecordResult(t)
        <4>1. worker[t].job \in Jobs
          BY <3>1, <3>8 DEF RecordResult
        <4>2. CASE worker[t].rc = 0
          BY <3>3, <3>8, <4>1, <4>2 DEF RecordResult
        <4>3. CASE worker[t].rc # 0
          BY <3>2, <3>8, <4>1, <4>3 DEF RecordResult
        <4>4. QED
          BY <4>2, <4>3
      <3>9. QED
        BY <2>15, <3>4, <3>5, <3>6, <3>7, <3>8 DEF WorkerStep
    <2>16. CASE Crash
      BY <2>16, <2>b DEF Crash, StartOwed
    <2>17. CASE Restart \/ RecoveryEnds
      BY <2>17, <2>b DEF Restart, RecoveryEnds, StartOwed
    <2>18. ASSUME NEW j \in Jobs, RecoverOrphan(j) PROVE Goal
      <3>1. CASE k = j
        BY <2>18, <2>a, <3>1 DEF RecoverOrphan, TypeOK
      <3>2. CASE k # j
        <4>1. recovered'[k] = recovered[k] /\ status'[k] = status[k]
          BY <2>18, <3>2 DEF RecoverOrphan, TypeOK
        <4>2. StartOwed(k)' => StartOwed(k)
          BY <2>18, <4>1 DEF RecoverOrphan, StartOwed
        <4>3. QED
          BY <2>18, <2>a, <4>1, <4>2 DEF RecoverOrphan
      <3>3. QED
        BY <3>1, <3>2
    <2>19. CASE UNCHANGED vars
      BY <2>19, <2>b DEF StartOwed
    <2>20. QED
      BY <2>1, <2>2, <2>3, <2>4, <2>5, <2>6, <2>7, <2>8, <2>9, <2>10, <2>11, <2>12, <2>13,
         <2>14, <2>15, <2>16, <2>17, <2>18, <2>19
      DEF Next, ApiStep, PollStep, RecoveryStep
  <1>3. TypeOK /\ BudgetInv => ExecutionBudget
    BY DEF TypeOK, BudgetInv, ExecutionBudget
  <1>4. QED
    BY <1>1, <1>2, <1>3, TypeCorrect, PTL DEF Spec

-----------------------------------------------------------------------------
(* Jobs that were never preempted, while others may be.                    *)

\* Only victims are marked, or about to be.
MarkedOnly ==
    /\ \A j \in preempted : ~NeverPreempted(j)
    /\ poll.pc = "mark" => ~NeverPreempted(poll.victim)

\* A worker that has yet to write the outcome of its run.
Active(t) == worker[t].stage \in {"submitted", "executing", "exited", "recording", "failing"}

\* The inductive strengthening of NoStrandedRunning: a worker in its tail no
\* longer counts, because it will not touch the row again.
HeldInv ==
    \A j \in Jobs : status[j] = "running" /\ NeverPreempted(j) =>
        \/ \E t \in Threads : worker[t].job = j /\ Active(t)
        \/ poll.pc = "submit" /\ poll.job = j
        \/ poll.pc \in {"down", "recover"}

LEMMA MarkedLemma == Spec => []MarkedOnly
  <1>1. Init => MarkedOnly
    BY DEF Init, MarkedOnly, At, PollAt
  <1>2. TypeOK /\ MarkedOnly /\ [Next]_vars => MarkedOnly'
    <2> SUFFICES ASSUME TypeOK, MarkedOnly, [Next]_vars PROVE MarkedOnly'
      OBVIOUS
    <2> USE DEF MarkedOnly, NeverPreempted, vars, rows, counters, daemon, At, PollAt
    <2>1. CASE ApiStep
      BY <2>1 DEF ApiStep, Submit, Cancel, ResumeDeferred, BackoffElapses
    <2>2. CASE RequeueVictim
      <3>1. /\ poll.victim \in Jobs /\ preemptions[poll.victim] \in Nat
            /\ preemptions' = [preemptions EXCEPT ![poll.victim] = @ + 1]
            /\ preempted' = preempted /\ preempted \subseteq Jobs
            /\ poll'.victim = poll.victim
        BY <2>2 DEF RequeueVictim, TypeOK
      <3>2. preemptions'[poll.victim] # 0
        BY <3>1 DEF TypeOK
      <3>3. \A j \in preempted : preemptions'[j] # 0
        BY <3>1, <3>2 DEF TypeOK
      <3>4. QED
        BY <3>1, <3>2, <3>3
    <2>3. CASE PollStep /\ ~RequeueVictim
      BY <2>3 DEF PollStep, PollSkip, PollPick, Refuse, DeferOnAdmit, Admit, ScanVictim, ScanNone,
                  MarkVictim, StartJob, SubmitToPool, Register
    <2>4. ASSUME NEW t \in Threads, WorkerStep(t) PROVE MarkedOnly'
      BY <2>4 DEF WorkerStep, CheckCommandStops, Spawn, SpawnRaises, ProcessExits, TimesOut,
                  ReadPreempted, RecordResult, TailEnds, TailRaises, HandleException, Finally
    <2>5. CASE Crash \/ RecoveryStep
      BY <2>5 DEF Crash, RecoveryStep, Restart, RecoverOrphan, RecoveryEnds
    <2>6. CASE UNCHANGED vars
      BY <2>6
    <2>7. QED
      BY <2>1, <2>2, <2>3, <2>4, <2>5, <2>6 DEF Next
  <1>3. QED
    BY <1>1, <1>2, TypeCorrect, PTL DEF Spec

\* Only a preemption touches the counter of preemptions, and only its victim's.
LEMMA PreemptionsLemma ==
    ASSUME TypeOK, [Next]_vars, NEW j \in Jobs, NeverPreempted(j)'
    PROVE  /\ NeverPreempted(j)
           /\ RequeueVictim => poll.victim # j
           /\ ~RequeueVictim => UNCHANGED preemptions
  <1> USE DEF vars, rows, counters
  <1>1. CASE RequeueVictim
    BY <1>1 DEF RequeueVictim, NeverPreempted, TypeOK
  <1>2. CASE ~RequeueVictim
    <2>1. UNCHANGED preemptions
      BY <1>2 DEF Next, ApiStep, Submit, Cancel, ResumeDeferred, BackoffElapses,
        PollStep, PollSkip, PollPick, Refuse, DeferOnAdmit, Admit, ScanVictim, ScanNone,
        MarkVictim, StartJob, SubmitToPool, Register,
        WorkerStep, CheckCommandStops, Spawn, SpawnRaises, ProcessExits, TimesOut,
        ReadPreempted, RecordResult, TailEnds, TailRaises, HandleException, Finally,
        Crash, RecoveryStep, Restart, RecoverOrphan, RecoveryEnds
    <2>2. QED
      BY <1>2, <2>1 DEF NeverPreempted
  <1>3. QED
    BY <1>1, <1>2

\* A worker step leaves every other worker alone.
LEMMA WorkerStepLocal ==
    ASSUME TypeOK, NEW t \in Threads, WorkerStep(t)
    PROVE  /\ \A u \in Threads : u # t => worker'[u] = worker[u]
           /\ worker[t].job \in Jobs
           /\ UNCHANGED poll
  BY DEF WorkerStep, CheckCommandStops, Spawn, SpawnRaises, ProcessExits, TimesOut, ReadPreempted,
         RecordResult, TailEnds, TailRaises, HandleException, Finally, Go, TypeOK

\* No row of a job that was never preempted is left running without somebody to
\* finish it, whatever other jobs are preempted for.
THEOREM NothingStranded == Spec => []NoStrandedRunning
  <1>1. Init => HeldInv
    BY DEF Init, HeldInv
  <1>2. TypeOK /\ RetryBudget /\ MarkedOnly /\ HeldInv /\ [Next]_vars => HeldInv'
    <2> SUFFICES ASSUME TypeOK, RetryBudget, MarkedOnly, HeldInv, [Next]_vars,
                        NEW j \in Jobs, status'[j] = "running", NeverPreempted(j)'
                 PROVE  \/ \E t \in Threads : worker'[t].job = j /\ Active(t)'
                        \/ poll'.pc = "submit" /\ poll'.job = j
                        \/ poll'.pc \in {"down", "recover"}
      BY DEF HeldInv
    <2> DEFINE Goal == \/ \E t \in Threads : worker'[t].job = j /\ Active(t)'
                       \/ poll'.pc = "submit" /\ poll'.job = j
                       \/ poll'.pc \in {"down", "recover"}
    <2>n. NeverPreempted(j) /\ (RequeueVictim => poll.victim # j)
      BY PreemptionsLemma
    <2>a. ASSUME status[j] = "running", UNCHANGED <<poll, worker>> PROVE Goal
      BY <2>a, <2>n DEF HeldInv, Active
    <2>b. ASSUME status[j] = "running", UNCHANGED worker,
                 poll.pc \notin {"submit", "down", "recover"}
          PROVE  Goal
      BY <2>b, <2>n DEF HeldInv, Active
    <2> USE DEF vars, rows, counters, daemon, history, At, PollAt
    <2>1. CASE ApiStep
      <3>1. status[j] = "running" /\ UNCHANGED <<poll, worker>>
        BY <2>1 DEF ApiStep, Submit, Cancel, ResumeDeferred, BackoffElapses, TypeOK
      <3>2. QED
        BY <2>a, <3>1
    <2>2. CASE PollStep
      <3>1. CASE StartJob
        BY <3>1, <2>b DEF StartJob, TypeOK
      <3>2. ASSUME NEW t \in Threads, SubmitToPool(t) PROVE Goal
        <4>1. CASE j = poll.job
          <5>1. worker'[t] = Run(j, "submitted", 0)
            BY <3>2, <4>1 DEF SubmitToPool, TypeOK
          <5>2. QED
            BY <5>1 DEF Run, Active
        <4>2. CASE j # poll.job
          <5>1. PICK u \in Threads : worker[u].job = j /\ Active(u)
            BY <3>2, <4>2, <2>n DEF SubmitToPool, HeldInv
          <5>2. u # t
            BY <3>2, <5>1 DEF SubmitToPool, Active
          <5>3. worker'[u] = worker[u]
            BY <3>2, <5>2 DEF SubmitToPool, TypeOK
          <5>4. QED
            BY <5>1, <5>3 DEF Active
        <4>3. QED
          BY <4>1, <4>2
      <3>3. CASE RequeueVictim \/ MarkVictim
        BY <3>3, <2>n, <2>b DEF RequeueVictim, MarkVictim, TypeOK
      <3>4. CASE DeferOnAdmit
        BY <3>4, <2>b DEF DeferOnAdmit, TypeOK
      <3>5. CASE PollSkip \/ Refuse \/ Admit \/ ScanNone \/ Register
        BY <3>5, <2>b DEF PollSkip, Refuse, Admit, ScanNone, Register
      <3>6. ASSUME NEW v \in Jobs, PollPick(v) \/ ScanVictim(v) PROVE Goal
        BY <3>6, <2>b DEF PollPick, ScanVictim
      <3>7. QED
        BY <2>2, <3>1, <3>2, <3>3, <3>4, <3>5, <3>6 DEF PollStep
    <2>3. ASSUME NEW t \in Threads, WorkerStep(t) PROVE Goal
      <3>1. /\ \A u \in Threads : u # t => worker'[u] = worker[u]
            /\ worker[t].job \in Jobs
            /\ UNCHANGED poll
        BY <2>3, WorkerStepLocal
      <3>2. ASSUME status[j] = "running", Active(t) => worker'[t].job = worker[t].job /\ Active(t)'
            PROVE  Goal
        BY <3>1, <3>2, <2>n DEF HeldInv, Active
      <3>3. ASSUME status[j] = "running", worker[t].job # j PROVE Goal
        BY <3>1, <3>3, <2>n DEF HeldInv, Active
      <3>4. CASE CheckCommandStops(t)
        BY <3>1, <3>3, <3>4 DEF CheckCommandStops, TypeOK
      <3>5. CASE Spawn(t) \/ SpawnRaises(t) \/ TailEnds(t) \/ TailRaises(t)
        BY <3>2, <3>5 DEF Spawn, SpawnRaises, TailEnds, TailRaises, Go, Active, TypeOK
      <3>6. CASE ProcessExits(t)
        BY <3>2, <3>6 DEF ProcessExits, Run, Active, TypeOK
      <3>7. CASE ReadPreempted(t)
        BY <3>2, <3>3, <3>7, <2>n DEF ReadPreempted, Go, Active, TypeOK, MarkedOnly
      <3>8. CASE Finally(t)
        BY <3>2, <3>8 DEF Finally, Active
      <3>9. CASE TimesOut(t) \/ HandleException(t) \/ RecordResult(t)
        <4>1. \/ Route(worker[t].job)
              \/ status' = [status EXCEPT ![worker[t].job] = "completed"]
          BY <3>9 DEF TimesOut, HandleException, RecordResult
        <4>2. status[j] = "running" /\ worker[t].job # j
          BY <3>1, <4>1, RouteLemma DEF TypeOK
        <4>3. QED
          BY <4>2, <3>3
      <3>10. QED
        BY <2>3, <3>4, <3>5, <3>6, <3>7, <3>8, <3>9 DEF WorkerStep
    <2>4. CASE Crash \/ RecoveryStep
      BY <2>4, <2>a DEF Crash, RecoveryStep, Restart, RecoverOrphan, RecoveryEnds, TypeOK
    <2>5. CASE UNCHANGED vars
      BY <2>5, <2>a
    <2>6. QED
      BY <2>1, <2>2, <2>3, <2>4, <2>5 DEF Next
  <1>3. HeldInv => NoStrandedRunning
    BY DEF HeldInv, NoStrandedRunning
  <1>4. QED
    BY <1>1, <1>2, <1>3, TypeCorrect, MarkedLemma, PTL DEF Spec

\* What makes the run of job j unique: its row says running for as long as the run
\* is not recorded, there is one such run at most, and the poll thread only
\* carries j to start_job while its row does not say running.
SingleRun(j) ==
    /\ \A t \in Threads : Active(t) /\ worker[t].job = j => status[j] = "running"
    /\ \A t, u \in Threads :
          Active(t) /\ Active(u) /\ worker[t].job = j /\ worker[u].job = j => t = u
    /\ poll.job = j /\ poll.pc \in {"admit", "scan", "requeue", "mark", "start"}
          => status[j] # "running"
    /\ poll.job = j /\ poll.pc = "submit"
          => /\ status[j] = "running"
             /\ \A t \in Threads : Active(t) => worker[t].job # j

NothingActive == \A t \in Threads : ~Active(t)

\* The inductive strengthening of NoDoubleExecution.
SingleRunInv ==
    /\ \A j \in Jobs : NeverPreempted(j) => SingleRun(j)
    /\ poll.pc \in {"down", "recover"} => NothingActive

\* If the bookkeeping after a run does not raise, the daemon never has two
\* processes of a job that was never preempted, even when a run's bookkeeping
\* outlasts its own retry backoff and other jobs are preempted.
THEOREM SingleExecution ==
    ASSUME "tail" \notin WorkerFaults
    PROVE  Spec => []NoDoubleExecution
  <1>1. Init => SingleRunInv
    BY ConstantsAssumption
    DEF Init, SingleRunInv, SingleRun, NothingActive, Active, IdleThread, Run, At, PollAt
  <1>2. TypeOK /\ SingleRunInv /\ [Next]_vars => (poll.pc \in {"down", "recover"} => NothingActive)'
    <2> SUFFICES ASSUME TypeOK, SingleRunInv, [Next]_vars, poll'.pc \in {"down", "recover"}
                 PROVE  NothingActive'
      OBVIOUS
    <2> USE DEF vars, rows, counters, daemon, At, PollAt
    <2>1. CASE Crash
      BY <2>1 DEF Crash, NothingActive, Active, IdleThread, Run
    <2>2. ASSUME NEW t \in Threads, WorkerStep(t) PROVE NothingActive'
      <3>1. UNCHANGED poll
        BY <2>2, WorkerStepLocal
      <3>2. NothingActive
        BY <3>1 DEF SingleRunInv
      <3>3. worker[t].stage \in {"tail", "finally"}
        BY <2>2, <3>2 DEF NothingActive, Active, WorkerStep, CheckCommandStops, Spawn, SpawnRaises,
          ProcessExits, TimesOut, ReadPreempted, RecordResult, TailEnds, TailRaises,
          HandleException, Finally
      <3>4. worker'[t].stage \in {"idle", "finally"}
        BY <2>2, <3>3 DEF WorkerStep, CheckCommandStops, Spawn, SpawnRaises,
          ProcessExits, TimesOut, ReadPreempted, RecordResult, TailEnds, TailRaises,
          HandleException, Finally, Go, IdleThread, Run, TypeOK
      <3>5. QED
        BY <2>2, <3>2, <3>4, WorkerStepLocal DEF NothingActive, Active
    <2>3. CASE ApiStep
      BY <2>3 DEF ApiStep, Submit, Cancel, ResumeDeferred, BackoffElapses, SingleRunInv,
                  NothingActive, Active
    <2>4. CASE PollStep
      BY <2>4 DEF PollStep, PollSkip, PollPick, Refuse, DeferOnAdmit, Admit, ScanVictim, ScanNone,
                  RequeueVictim, MarkVictim, StartJob, SubmitToPool, Register
    <2>5. CASE RecoveryStep
      BY <2>5 DEF RecoveryStep, Restart, RecoverOrphan, RecoveryEnds, SingleRunInv,
                  NothingActive, Active
    <2>6. CASE UNCHANGED vars
      BY <2>6 DEF SingleRunInv, NothingActive, Active
    <2>7. QED
      BY <2>1, <2>2, <2>3, <2>4, <2>5, <2>6 DEF Next
  <1>3. ASSUME TypeOK, RetryBudget, MarkedOnly, SingleRunInv, [Next]_vars,
               NEW j \in Jobs, NeverPreempted(j)'
        PROVE  SingleRun(j)'
    <2> USE DEF vars, rows, counters, daemon, history, At, PollAt
    <2>a. SingleRun(j) /\ (RequeueVictim => poll.victim # j)
      BY <1>3, PreemptionsLemma DEF SingleRunInv
    <2>b. ASSUME UNCHANGED worker, status'[j] = status[j],
                 poll'.job = j /\ poll'.pc \in {"admit", "scan", "requeue", "mark", "start"}
                     => \/ status[j] # "running"
                        \/ poll.job = j /\ poll.pc \in {"admit", "scan", "requeue", "mark", "start"},
                 poll'.pc = "submit" => UNCHANGED poll
          PROVE  SingleRun(j)'
      BY <2>a, <2>b DEF SingleRun, Active
    <2>1. CASE ApiStep
      <3>1. PICK i \in Jobs : Submit(i) \/ Cancel(i) \/ ResumeDeferred(i) \/ BackoffElapses(i)
        BY <2>1 DEF ApiStep
      <3>2. UNCHANGED <<poll, worker>>
        BY <3>1 DEF Submit, Cancel, ResumeDeferred, BackoffElapses
      <3>3. status'[j] = status[j] \/ (status[j] # "running" /\ status'[j] # "running")
        <4>1. status \in [Jobs -> Statuses]
          BY <1>3 DEF TypeOK
        <4>2. QED
          BY <3>1, <4>1 DEF Submit, Cancel, ResumeDeferred, BackoffElapses
      <3>4. QED
        BY <2>a, <3>2, <3>3 DEF SingleRun, Active
    <2>2. CASE PollStep
      <3>1. CASE PollSkip \/ Refuse \/ Admit \/ ScanNone \/ Register
        BY <2>b, <3>1 DEF PollSkip, Refuse, Admit, ScanNone, Register
      <3>2. ASSUME NEW i \in Jobs, PollPick(i) PROVE SingleRun(j)'
        BY <2>b, <3>2 DEF PollPick, MostUrgent, Eligible
      <3>3. ASSUME NEW v \in Jobs, ScanVictim(v) PROVE SingleRun(j)'
        BY <2>b, <3>3 DEF ScanVictim
      <3>4. CASE DeferOnAdmit
        <4>1. /\ status'[j] = status[j] \/ (poll.job = j /\ status'[j] = "deferred")
              /\ UNCHANGED worker /\ poll.pc = "admit" /\ poll'.pc = "top"
          <5>1. status \in [Jobs -> Statuses]
            BY <1>3 DEF TypeOK
          <5>2. QED
            BY <3>4, <5>1 DEF DeferOnAdmit
        <4>2. QED
          BY <2>a, <4>1 DEF SingleRun, Active
      <3>5. CASE RequeueVictim \/ MarkVictim
        BY <2>a, <2>b, <3>5, <1>3 DEF RequeueVictim, MarkVictim, TypeOK
      <3>6. CASE StartJob
        <4>1. /\ UNCHANGED worker /\ poll.pc = "start"
              /\ poll'.pc = "submit" /\ poll'.job = poll.job
              /\ status'[j] = IF poll.job = j THEN "running" ELSE status[j]
          BY <3>6, <1>3 DEF StartJob, TypeOK
        <4>2. QED
          BY <2>a, <4>1 DEF SingleRun, Active
      <3>7. ASSUME NEW t \in Threads, SubmitToPool(t) PROVE SingleRun(j)'
        <4>1. /\ poll.pc = "submit" /\ poll'.pc = "register"
              /\ worker'[t].job = poll.job
              /\ \A u \in Threads : u # t => worker'[u] = worker[u]
              /\ UNCHANGED status
          BY <3>7, <1>3 DEF SubmitToPool, Run, TypeOK
        <4>2. QED
          BY <2>a, <4>1 DEF SingleRun, Active
      <3>8. QED
        BY <2>2, <3>1, <3>2, <3>3, <3>4, <3>5, <3>6, <3>7 DEF PollStep
    <2>3. ASSUME NEW t \in Threads, WorkerStep(t) PROVE SingleRun(j)'
      <3>1. /\ \A u \in Threads : u # t => worker'[u] = worker[u]
            /\ worker[t].job \in Jobs
            /\ UNCHANGED poll
        BY <1>3, <2>3, WorkerStepLocal
      \* A run that goes on or ends leaves the table as it is ...
      <3>2. ASSUME UNCHANGED status,
                   Active(t)' => Active(t) /\ worker'[t].job = worker[t].job
            PROVE  SingleRun(j)'
        BY <2>a, <3>1, <3>2 DEF SingleRun, Active
      \* ... or records the outcome of the one active run of its job.
      <3>3. ASSUME Active(t), ~Active(t)', status'[worker[t].job] # "running",
                   \A i \in Jobs : i # worker[t].job => status'[i] = status[i]
            PROVE  SingleRun(j)'
        <4>1. CASE worker[t].job = j
          BY <2>a, <3>1, <3>3, <4>1 DEF SingleRun, Active
        <4>2. CASE worker[t].job # j
          BY <2>a, <3>1, <3>3, <4>2 DEF SingleRun, Active
        <4>3. QED
          BY <4>1, <4>2
      <3>4. CASE Spawn(t) \/ SpawnRaises(t) \/ TailEnds(t)
        BY <1>3, <3>2, <3>4 DEF Spawn, SpawnRaises, TailEnds, Go, Active, TypeOK
      <3>5. CASE TailRaises(t)
        BY <3>5 DEF TailRaises
      <3>6. CASE ProcessExits(t)
        BY <1>3, <3>2, <3>6 DEF ProcessExits, Run, Active, TypeOK
      <3>7. CASE ReadPreempted(t)
        BY <1>3, <3>2, <3>7 DEF ReadPreempted, Go, Active, TypeOK
      <3>8. CASE Finally(t)
        BY <1>3, <3>2, <3>8 DEF Finally, IdleThread, Run, Active, TypeOK
      <3>9. CASE CheckCommandStops(t)
        BY <1>3, <3>1, <3>3, <3>9 DEF CheckCommandStops, IdleThread, Run, Active, TypeOK
      <3>10. CASE TimesOut(t) \/ HandleException(t) \/ RecordResult(t)
        <4>1. Active(t) /\ ~Active(t)'
          BY <1>3, <3>10 DEF TimesOut, HandleException, RecordResult, Go, Active, TypeOK
        <4>2. \/ Route(worker[t].job)
              \/ status' = [status EXCEPT ![worker[t].job] = "completed"]
          BY <3>10 DEF TimesOut, HandleException, RecordResult
        <4>3. QED
          BY <1>3, <3>1, <3>3, <4>1, <4>2, RouteLemma DEF TypeOK
      <3>11. QED
        BY <2>3, <3>4, <3>5, <3>6, <3>7, <3>8, <3>9, <3>10 DEF WorkerStep
    <2>4. CASE Crash
      BY <2>4 DEF Crash, SingleRun, Active, IdleThread, Run
    <2>5. CASE Restart \/ RecoveryEnds
      BY <2>b, <2>5 DEF Restart, RecoveryEnds
    <2>6. ASSUME NEW i \in Jobs, RecoverOrphan(i) PROVE SingleRun(j)'
      <3>1. NothingActive /\ UNCHANGED <<poll, worker>> /\ poll.pc = "recover"
        BY <1>3, <2>6 DEF RecoverOrphan, SingleRunInv
      <3>2. QED
        BY <3>1 DEF SingleRun, NothingActive, Active
    <2>7. CASE UNCHANGED vars
      BY <2>b, <2>7
    <2>8. QED
      BY <1>3, <2>1, <2>2, <2>3, <2>4, <2>5, <2>6, <2>7 DEF Next, RecoveryStep
  <1>4. TypeOK /\ RetryBudget /\ MarkedOnly /\ SingleRunInv /\ [Next]_vars => SingleRunInv'
    BY <1>2, <1>3 DEF SingleRunInv
  <1>5. TypeOK /\ SingleRunInv => NoDoubleExecution
    BY DEF SingleRunInv, SingleRun, NoDoubleExecution, Executing, Active, TypeOK
  <1>6. QED
    BY <1>1, <1>4, <1>5, TypeCorrect, MarkedLemma, PTL DEF Spec

-----------------------------------------------------------------------------
(* Models and slots, for runs whose bookkeeping is over before the backoff *)
(* of the retry they scheduled.                                            *)

\* The poll thread has job j in hand, and no worker has it yet.
InHand(j) == poll.job = j /\ poll.pc \in {"admit", "scan", "requeue", "mark", "start", "submit"}

\* The worker of job j is the one that _running names, or will as soon as the poll
\* thread registers it, and its row is not one that could be picked.
Tracked(j) ==
    /\ \A t \in Threads : worker[t].job = j =>
          /\ status[j] \notin {"absent", "pending", "deferred"} \/ j \in backoff
          /\ ~InHand(j)
          /\ running[j] = t \/ (poll.pc = "register" /\ poll.job = j)
          /\ poll.pc = "register" /\ poll.job = j => poll.thread = t
    /\ poll.job = j /\ poll.pc = "submit" => status[j] = "running"

NobodyWorks == \A t \in Threads : worker[t].job = NoJob

TrackedInv ==
    /\ \A j \in Jobs : NeverPreempted(j) => Tracked(j)
    /\ poll.pc \in {"down", "recover"} => NobodyWorks

\* What a worker does to its own job and leaves of the others.
LEMMA WorkerStepRows ==
    ASSUME TypeOK, RetryBudget, NEW t \in Threads, WorkerStep(t)
    PROVE  /\ worker'[t].job \in {worker[t].job, NoJob}
           /\ \A j \in Jobs : j # worker[t].job =>
                status'[j] = status[j] /\ running'[j] = running[j] /\ (j \in backoff => j \in backoff')
           /\ worker'[t].job # NoJob => running' = running
           /\ \/ UNCHANGED <<status, backoff>>
              \/ status'[worker[t].job] \in {"completed", "dead"}
              \/ status'[worker[t].job] = "pending" /\ worker[t].job \in backoff'
  <1> USE DEF vars, rows, counters, daemon, Go, IdleThread, Run
  <1>1. worker[t].job \in Jobs
    BY WorkerStepLocal
  <1>2. CASE Spawn(t) \/ SpawnRaises(t) \/ ReadPreempted(t) \/ TailEnds(t) \/ TailRaises(t)
    BY <1>2 DEF Spawn, SpawnRaises, ReadPreempted, TailEnds, TailRaises, TypeOK
  <1>3. CASE ProcessExits(t)
    BY <1>3 DEF ProcessExits, TypeOK
  <1>4. CASE CheckCommandStops(t)
    BY <1>1, <1>4 DEF CheckCommandStops, TypeOK
  <1>5. CASE Finally(t)
    BY <1>1, <1>5 DEF Finally, TypeOK
  <1>6. ASSUME NEW j \in Jobs, j = worker[t].job, Route(j)
        PROVE  /\ \A i \in Jobs : i # j => status'[i] = status[i]
               /\ \A i \in backoff : i \in backoff'
               /\ status'[j] = "dead" \/ (status'[j] = "pending" /\ j \in backoff')
    <2>1. \A i \in Jobs : i # j => status'[i] = status[i]
      BY <1>6, RouteLemma
    <2>2. CASE retries[j] < MaxRetries[j]
      BY <1>6, <2>1, <2>2 DEF Route, TypeOK
    <2>3. CASE ~(retries[j] < MaxRetries[j])
      BY <1>6, <2>1, <2>3 DEF Route, TypeOK
    <2>4. QED
      BY <2>2, <2>3
  <1>7. CASE TimesOut(t) \/ HandleException(t)
    <2>1. /\ Route(worker[t].job) /\ worker'[t].job = worker[t].job /\ UNCHANGED running
      BY <1>7 DEF TimesOut, HandleException, TypeOK
    <2>2. QED
      BY <1>1, <1>6, <2>1
  <1>8. CASE RecordResult(t)
    <2>1. /\ worker'[t].job = worker[t].job /\ UNCHANGED running
          /\ \/ Route(worker[t].job)
             \/ status' = [status EXCEPT ![worker[t].job] = "completed"] /\ UNCHANGED backoff
      BY <1>8 DEF RecordResult, TypeOK
    <2>2. CASE Route(worker[t].job)
      BY <1>1, <1>6, <2>1, <2>2
    <2>3. CASE status' = [status EXCEPT ![worker[t].job] = "completed"] /\ UNCHANGED backoff
      BY <1>1, <2>1, <2>3 DEF TypeOK
    <2>4. QED
      BY <2>1, <2>2, <2>3
  <1>9. QED
    BY <1>2, <1>3, <1>4, <1>5, <1>7, <1>8 DEF WorkerStep

\* Without a slow tail the worker of a job that was never preempted stays known to
\* _running, alone, until it leaves, and nobody can pick its job meanwhile.
LEMMA TrackedLemma ==
    ASSUME ~SlowTail
    PROVE  Spec => []TrackedInv
  <1>1. Init => TrackedInv
    BY ConstantsAssumption
    DEF Init, TrackedInv, Tracked, InHand, NobodyWorks, IdleThread, Run, At, PollAt
  <1>2. TypeOK /\ TrackedInv /\ [Next]_vars => (poll.pc \in {"down", "recover"} => NobodyWorks)'
    <2> SUFFICES ASSUME TypeOK, TrackedInv, [Next]_vars, poll'.pc \in {"down", "recover"}
                 PROVE  NobodyWorks'
      OBVIOUS
    <2> USE DEF vars, rows, counters, daemon, At, PollAt
    <2>1. CASE Crash
      BY <2>1 DEF Crash, NobodyWorks, IdleThread, Run
    <2>2. ASSUME NEW t \in Threads, WorkerStep(t) PROVE FALSE
      <3>1. UNCHANGED poll /\ worker[t].job \in Jobs
        BY <2>2, WorkerStepLocal
      <3>2. QED
        BY <3>1, ConstantsAssumption DEF TrackedInv, NobodyWorks
    <2>3. CASE ApiStep
      BY <2>3 DEF ApiStep, Submit, Cancel, ResumeDeferred, BackoffElapses, TrackedInv, NobodyWorks
    <2>4. CASE PollStep
      BY <2>4 DEF PollStep, PollSkip, PollPick, Refuse, DeferOnAdmit, Admit, ScanVictim, ScanNone,
                  RequeueVictim, MarkVictim, StartJob, SubmitToPool, Register
    <2>5. CASE RecoveryStep
      BY <2>5 DEF RecoveryStep, Restart, RecoverOrphan, RecoveryEnds, TrackedInv, NobodyWorks
    <2>6. CASE UNCHANGED vars
      BY <2>6 DEF TrackedInv, NobodyWorks
    <2>7. QED
      BY <2>1, <2>2, <2>3, <2>4, <2>5, <2>6 DEF Next
  <1>3. ASSUME TypeOK, RetryBudget, TrackedInv, [Next]_vars, NEW j \in Jobs, NeverPreempted(j)'
        PROVE  Tracked(j)'
    <2> USE DEF vars, rows, counters, daemon, history, At, PollAt
    <2>a. Tracked(j) /\ (RequeueVictim => poll.victim # j)
      BY <1>3, PreemptionsLemma DEF TrackedInv
    <2>s. status \in [Jobs -> Statuses]
      BY <1>3 DEF TypeOK
    \* The poll thread moves on with the job it has, or drops it.
    <2>b. ASSUME UNCHANGED <<worker, running, backoff>>, status'[j] = status[j],
                 poll.pc # "register", poll'.pc \notin {"register", "submit"},
                 InHand(j)' => InHand(j)
          PROVE  Tracked(j)'
      BY <2>a, <2>b DEF Tracked
    <2>1. CASE ApiStep
      <3>1. PICK i \in Jobs : Submit(i) \/ Cancel(i) \/ ResumeDeferred(i) \/ BackoffElapses(i)
        BY <2>1 DEF ApiStep
      <3>2. UNCHANGED <<poll, worker, running>>
        BY <3>1 DEF Submit, Cancel, ResumeDeferred, BackoffElapses
      <3>3. CASE BackoffElapses(i)
        <4>1. /\ \A t \in Threads : worker[t].job # i
              /\ UNCHANGED status /\ (j # i /\ j \in backoff => j \in backoff')
          BY <3>3 DEF BackoffElapses
        <4>2. QED
          BY <2>a, <3>2, <4>1 DEF Tracked, InHand
      <3>4. CASE Submit(i) \/ Cancel(i) \/ ResumeDeferred(i)
        <4>1. /\ UNCHANGED backoff
              /\ \/ status'[j] = status[j]
                 \/ status[j] \in {"absent", "pending", "deferred"}
          BY <3>4, <2>s DEF Submit, Cancel, ResumeDeferred
        <4>2. QED
          BY <2>a, <3>2, <4>1 DEF Tracked, InHand
      <3>5. QED
        BY <3>1, <3>3, <3>4
    <2>2. CASE PollStep
      <3>1. CASE Refuse \/ Admit \/ ScanNone
        BY <2>b, <3>1 DEF Refuse, Admit, ScanNone, InHand
      <3>2. ASSUME NEW v \in Jobs, ScanVictim(v) PROVE Tracked(j)'
        BY <2>b, <3>2 DEF ScanVictim, InHand
      <3>3. CASE RequeueVictim \/ MarkVictim
        <4>1. status'[j] = status[j]
          BY <2>a, <2>s, <3>3, <1>3 DEF RequeueVictim, MarkVictim, TypeOK
        <4>2. QED
          BY <2>b, <3>3, <4>1 DEF RequeueVictim, MarkVictim, InHand
      <3>4. ASSUME UNCHANGED <<status, backoff, worker>>, running' = CleanedRunning, poll.pc = "top",
                   poll'.pc \in {"top", "admit"},
                   InHand(j)' => status[j] = "pending" /\ j \notin backoff
            PROVE  Tracked(j)'
        <4>1. ASSUME NEW t \in Threads, worker[t].job = j
              PROVE  running'[j] = t
          BY <1>3, <2>a, <3>4, <4>1 DEF Tracked, CleanedRunning, DoneFutures, Registered, TypeOK
        <4>2. QED
          BY <2>a, <3>4, <4>1 DEF Tracked
      <3>5. CASE PollSkip
        BY <3>4, <3>5 DEF PollSkip, InHand
      <3>6. ASSUME NEW i \in Jobs, PollPick(i) PROVE Tracked(j)'
        BY <3>4, <3>6 DEF PollPick, MostUrgent, Eligible, InHand
      <3>7. CASE DeferOnAdmit
        <4>1. /\ status'[j] = status[j] \/ (poll.job = j /\ poll.pc = "admit")
              /\ UNCHANGED <<worker, running, backoff>> /\ poll'.pc = "top" /\ poll.pc = "admit"
          BY <2>s, <3>7 DEF DeferOnAdmit
        <4>2. QED
          BY <2>a, <4>1 DEF Tracked, InHand
      <3>8. CASE StartJob
        <4>1. /\ UNCHANGED <<worker, running, backoff>> /\ poll.pc = "start"
              /\ poll'.pc = "submit" /\ poll'.job = poll.job
              /\ status'[j] = IF poll.job = j THEN "running" ELSE status[j]
          BY <2>s, <3>8 DEF StartJob
        <4>2. QED
          BY <2>a, <4>1 DEF Tracked, InHand
      <3>9. ASSUME NEW t \in Threads, SubmitToPool(t) PROVE Tracked(j)'
        <4>1. /\ poll.pc = "submit" /\ poll'.pc = "register"
              /\ poll'.job = poll.job /\ poll'.thread = t
              /\ worker'[t].job = poll.job
              /\ \A u \in Threads : u # t => worker'[u] = worker[u]
              /\ UNCHANGED <<status, backoff, running>>
          BY <3>9, <1>3 DEF SubmitToPool, Run, TypeOK
        <4>2. QED
          BY <2>a, <4>1 DEF Tracked, InHand
      <3>10. CASE Register
        <4>1. /\ poll.pc = "register" /\ poll'.pc = "top"
              /\ running'[j] = IF poll.job = j THEN poll.thread ELSE running[j]
              /\ UNCHANGED <<status, backoff, worker>>
          BY <3>10, <1>3 DEF Register, TypeOK
        <4>2. QED
          BY <2>a, <4>1 DEF Tracked, InHand
      <3>11. QED
        BY <2>2, <3>1, <3>2, <3>3, <3>5, <3>6, <3>7, <3>8, <3>9, <3>10 DEF PollStep
    <2>3. ASSUME NEW t \in Threads, WorkerStep(t) PROVE Tracked(j)'
      <3>1. /\ \A u \in Threads : u # t => worker'[u] = worker[u]
            /\ worker[t].job \in Jobs
            /\ UNCHANGED poll
        BY <1>3, <2>3, WorkerStepLocal
      <3>2. /\ worker'[t].job \in {worker[t].job, NoJob}
            /\ \A i \in Jobs : i # worker[t].job =>
                 status'[i] = status[i] /\ running'[i] = running[i] /\ (i \in backoff => i \in backoff')
            /\ worker'[t].job # NoJob => running' = running
            /\ \/ UNCHANGED <<status, backoff>>
               \/ status'[worker[t].job] \in {"completed", "dead"}
               \/ status'[worker[t].job] = "pending" /\ worker[t].job \in backoff'
        BY <1>3, <2>3, WorkerStepRows
      <3>3. CASE worker[t].job # j
        BY <2>a, <3>1, <3>2, <3>3, ConstantsAssumption DEF Tracked, InHand
      <3>4. CASE worker[t].job = j
        <4>1. ASSUME NEW u \in Threads, worker'[u].job = j
              PROVE  u = t /\ UNCHANGED running
          <5>1. worker[u].job = j
            BY <3>1, <3>2, <3>4, <4>1, ConstantsAssumption
          <5>2. u = t
            BY <2>a, <3>4, <5>1 DEF Tracked
          <5>3. QED
            BY <3>2, <3>4, <4>1, <5>2, ConstantsAssumption
        <4>2. ~InHand(j)'
          BY <2>a, <3>1, <3>4 DEF Tracked, InHand
        <4>3. status'[j] \notin {"absent", "pending", "deferred"} \/ j \in backoff'
          BY <2>a, <3>2, <3>4 DEF Tracked
        <4>4. /\ running[j] = t \/ (poll.pc = "register" /\ poll.job = j)
              /\ poll.pc = "register" /\ poll.job = j => poll.thread = t
          BY <2>a, <3>4 DEF Tracked
        <4>5. QED
          BY <3>1, <4>1, <4>2, <4>3, <4>4 DEF Tracked, InHand
      <3>5. QED
        BY <3>3, <3>4
    <2>4. CASE Crash
      BY <2>4, ConstantsAssumption DEF Crash, Tracked, IdleThread, Run
    <2>5. CASE RecoveryStep
      <3>1. /\ NobodyWorks /\ UNCHANGED worker
            /\ poll'.pc \in {"recover", "top"}
        BY <1>3, <2>5 DEF RecoveryStep, Restart, RecoverOrphan, RecoveryEnds, TrackedInv
      <3>2. QED
        BY <3>1, ConstantsAssumption DEF Tracked, NobodyWorks
    <2>6. CASE UNCHANGED vars
      BY <2>a, <2>6 DEF Tracked, InHand
    <2>7. QED
      BY <1>3, <2>1, <2>2, <2>3, <2>4, <2>5, <2>6 DEF Next
  <1>4. TypeOK /\ RetryBudget /\ TrackedInv /\ [Next]_vars => TrackedInv'
    BY <1>2, <1>3 DEF TrackedInv
  <1>5. QED
    BY <1>1, <1>4, TypeCorrect, PTL DEF Spec

\* Job j has a worker, or the poll thread has admitted it and will give it one.
Holds(j) ==
    \/ \E t \in Threads : worker[t].job = j
    \/ poll.job = j /\ poll.pc \in {"scan", "requeue", "mark", "start", "submit"}

\* Only the admission lets a job hold the daemon.
LEMMA HoldsLemma ==
    ASSUME TypeOK, RetryBudget, [Next]_vars, NEW j \in Jobs, Holds(j)'
    PROVE  Holds(j) \/ (Admit /\ poll.job = j)
  <1> USE DEF vars, rows, counters, daemon, At, PollAt
  <1>1. CASE ApiStep \/ RecoveryStep \/ UNCHANGED vars
    BY <1>1 DEF ApiStep, Submit, Cancel, ResumeDeferred, BackoffElapses,
                RecoveryStep, Restart, RecoverOrphan, RecoveryEnds, Holds
  <1>2. CASE Crash
    BY <1>2, ConstantsAssumption DEF Crash, Holds, IdleThread, Run
  <1>3. CASE PollStep
    <2>1. CASE PollSkip \/ Refuse \/ DeferOnAdmit \/ Register
      BY <2>1 DEF PollSkip, Refuse, DeferOnAdmit, Register, Holds
    <2>2. CASE ScanNone \/ RequeueVictim \/ MarkVictim \/ StartJob
      BY <2>2 DEF ScanNone, RequeueVictim, MarkVictim, StartJob, Holds
    <2>3. ASSUME NEW i \in Jobs, PollPick(i) \/ ScanVictim(i) PROVE Holds(j)
      BY <2>3 DEF PollPick, ScanVictim, Holds
    <2>4. CASE Admit
      BY <2>4 DEF Admit, Holds
    <2>5. ASSUME NEW t \in Threads, SubmitToPool(t) PROVE Holds(j)
      BY <2>5 DEF SubmitToPool, Run, Holds, TypeOK
    <2>6. QED
      BY <1>3, <2>1, <2>2, <2>3, <2>4, <2>5 DEF PollStep
  <1>4. ASSUME NEW t \in Threads, WorkerStep(t) PROVE Holds(j)
    BY <1>4, WorkerStepLocal, WorkerStepRows, ConstantsAssumption DEF Holds
  <1>5. QED
    BY <1>1, <1>2, <1>3, <1>4 DEF Next

\* Whoever holds the daemon when the gates of _can_admit are read is counted there.
LEMMA HoldersRegistered ==
    ASSUME TypeOK, TrackedInv, Admit, NEW j \in Jobs, NeverPreempted(j), Holds(j)
    PROVE  j \in Registered /\ j # poll.job
  <1>1. Tracked(j) /\ poll.pc = "admit"
    BY DEF TrackedInv, Admit
  <1>2. PICK t \in Threads : worker[t].job = j
    BY <1>1 DEF Holds
  <1>3. running[j] = t /\ ~InHand(j)
    BY <1>1, <1>2 DEF Tracked
  <1>4. QED
    BY <1>1, <1>3, ConstantsAssumption DEF InHand, Registered

\* A job with a process holds the daemon.
LEMMA ExecutingHolds ==
    ASSUME TypeOK, NEW j \in ExecutingJobs
    PROVE  j \in Jobs /\ Holds(j)
  BY DEF ExecutingJobs, Executing, Holds, TypeOK

\* The inductive strengthening of ModelExclusive: it holds of every job that was
\* admitted, from its admission until its worker leaves.
ExclusiveInv ==
    \A i, j \in Jobs :
        /\ i # j /\ Profile[i] # "embed" /\ Profile[j] # "embed"
        /\ Model[i] = Model[j] /\ Model[i] # NoModel
        /\ NeverPreempted(i) /\ NeverPreempted(j)
        => ~(Holds(i) /\ Holds(j))

\* Two standard or heavy jobs of one model never run at once, for any number of
\* slots, threads and crashes, as long as a run's bookkeeping ends before the
\* backoff of the retry it scheduled and neither of them was ever preempted.
THEOREM OneProcessPerModel ==
    ASSUME ~SlowTail
    PROVE  Spec => []ModelExclusive
  <1>1. Init => ExclusiveInv
    BY ConstantsAssumption DEF Init, ExclusiveInv, Holds, IdleThread, Run, At, PollAt
  <1>2. TypeOK /\ RetryBudget /\ TrackedInv /\ ExclusiveInv /\ [Next]_vars => ExclusiveInv'
    <2> SUFFICES ASSUME TypeOK, RetryBudget, TrackedInv, ExclusiveInv, [Next]_vars,
                        NEW i \in Jobs, NEW j \in Jobs, i # j,
                        Profile[i] # "embed", Profile[j] # "embed",
                        Model[i] = Model[j], Model[i] # NoModel,
                        NeverPreempted(i)', NeverPreempted(j)', Holds(i)', Holds(j)'
                 PROVE  FALSE
      BY DEF ExclusiveInv
    <2>1. NeverPreempted(i) /\ NeverPreempted(j)
      BY PreemptionsLemma
    <2>2. ~(Holds(i) /\ Holds(j))
      BY <2>1 DEF ExclusiveInv
    <2>3. /\ Holds(i) \/ (Admit /\ poll.job = i)
          /\ Holds(j) \/ (Admit /\ poll.job = j)
      BY HoldsLemma
    <2>4. ASSUME NEW k \in Jobs, NEW m \in Jobs, Admit, poll.job = k, Holds(m), NeverPreempted(m),
                 Profile[k] # "embed", Profile[m] # "embed",
                 Model[k] = Model[m], Model[k] # NoModel
          PROVE  FALSE
      <3>1. m \in NonEmbed(Registered)
        BY <2>4, HoldersRegistered DEF NonEmbed
      <3>2. CASE Profile[k] = "heavy"
        BY <2>4, <3>1, <3>2 DEF Admit, CanAdmit, HeavyGate
      <3>3. CASE Profile[k] = "ollama"
        BY <2>4, <3>1, <3>3 DEF Admit, CanAdmit, StandardGate, SameModelGate, NonEmbed
      <3>4. QED
        BY <2>4, <3>2, <3>3, ConstantsAssumption DEF Profiles
    <2>5. QED
      BY <2>1, <2>2, <2>3, <2>4
  <1>3. TypeOK /\ ExclusiveInv => ModelExclusive
    BY ExecutingHolds DEF ExclusiveInv, ModelExclusive, NonEmbed
  <1>4. QED
    BY <1>1, <1>2, <1>3, TypeCorrect, TrackedLemma, PTL DEF Spec

\* The jobs of one profile that hold the daemon and were never preempted.
Holding(p) == {j \in Jobs : NeverPreempted(j) /\ Holds(j) /\ Profile[j] = p}

\* The inductive strengthening of SlotsRespected.
SlotInv ==
    /\ Cardinality(Holding("ollama")) <= MaxSlots
    /\ Cardinality(Holding("embed")) <= EmbedSlots

\* The jobs that run never outnumber the slots of their profile, whatever the
\* settings, under the same condition on the bookkeeping; the job the poll thread
\* has admitted and not yet submitted already takes its slot.
THEOREM SlotsKept ==
    ASSUME ~SlowTail, IsFiniteSet(Jobs)
    PROVE  Spec => []SlotsRespected
  <1>a. \A S \in SUBSET Jobs : IsFiniteSet(S) /\ Cardinality(S) \in Nat
    BY FS_Subset, FS_CardinalityType
  <1>b. \A S, T \in SUBSET Jobs : S \subseteq T => Cardinality(S) <= Cardinality(T)
    BY <1>a, FS_Subset
  <1>c. MaxSlots \in Nat /\ EmbedSlots \in Nat
    BY ConstantsAssumption
  <1>1. Init => SlotInv
    <2> SUFFICES ASSUME Init PROVE SlotInv
      OBVIOUS
    <2>1. \A j \in Jobs : ~Holds(j)
      BY ConstantsAssumption DEF Init, Holds, IdleThread, Run, At, PollAt
    <2>2. Holding("ollama") = {} /\ Holding("embed") = {}
      BY <2>1 DEF Holding
    <2>3. QED
      BY <1>c, <2>2, FS_EmptySet DEF SlotInv
  <1>2. TypeOK /\ RetryBudget /\ TrackedInv /\ SlotInv /\ [Next]_vars => SlotInv'
    <2> SUFFICES ASSUME TypeOK, RetryBudget, TrackedInv, SlotInv, [Next]_vars
                 PROVE  SlotInv'
      OBVIOUS
    <2>0. \A p : Holding(p) \subseteq Jobs /\ Holding(p)' \subseteq Jobs
      BY DEF Holding
    <2>1. ASSUME NEW p, ~(Admit /\ Profile[poll.job] = p)
          PROVE  Cardinality(Holding(p)') <= Cardinality(Holding(p))
      <3>1. Holding(p)' \subseteq Holding(p)
        <4> SUFFICES ASSUME NEW j \in Jobs, NeverPreempted(j)', Holds(j)', Profile[j] = p
                     PROVE  j \in Holding(p)
          BY DEF Holding
        <4>1. NeverPreempted(j)
          BY PreemptionsLemma
        <4>2. Holds(j)
          BY <2>1, HoldsLemma
        <4>3. QED
          BY <4>1, <4>2 DEF Holding
      <3>2. QED
        BY <1>b, <2>0, <3>1
    <2>2. ASSUME NEW p, Admit, poll.job \in Jobs, NEW limit \in Nat,
                 Cardinality(Holding(p)) < limit
          PROVE  Cardinality(Holding(p)') <= limit
      <3>1. Holding(p)' \subseteq Holding(p) \cup {poll.job}
        <4> SUFFICES ASSUME NEW j \in Jobs, NeverPreempted(j)', Holds(j)', Profile[j] = p,
                            j # poll.job
                     PROVE  j \in Holding(p)
          BY DEF Holding
        <4>1. NeverPreempted(j)
          BY PreemptionsLemma
        <4>2. Holds(j)
          BY HoldsLemma
        <4>3. QED
          BY <4>1, <4>2 DEF Holding
      <3>2. Cardinality(Holding(p) \cup {poll.job}) <= Cardinality(Holding(p)) + 1
        <4>1. IsFiniteSet(Holding(p)) /\ Cardinality(Holding(p)) \in Nat
          BY <1>a, <2>0
        <4>2. QED
          BY <4>1, FS_AddElement
      <3>3. Cardinality(Holding(p)') <= Cardinality(Holding(p) \cup {poll.job})
        BY <1>b, <2>0, <2>2, <3>1
      <3>4. /\ Cardinality(Holding(p)) \in Nat /\ Cardinality(Holding(p)') \in Nat
            /\ Cardinality(Holding(p) \cup {poll.job}) \in Nat
        BY <1>a, <2>0, <2>2
      <3>5. QED
        BY <2>2, <3>2, <3>3, <3>4
    <2>3. ASSUME Admit
          PROVE  /\ poll.job \in Jobs
                 /\ \A p : Holding(p) \subseteq Registered
                 /\ Holding("embed") \subseteq Embed(Registered)
                 /\ Registered \subseteq Jobs
      BY <2>3, HoldersRegistered DEF Holding, Embed, Registered, Admit, TypeOK
    <2>4. Cardinality(Holding("ollama")') <= MaxSlots
      <3>1. CASE Admit /\ Profile[poll.job] = "ollama"
        <4>1. Cardinality(Registered) < MaxSlots
          BY <3>1 DEF Admit, CanAdmit, StandardGate
        <4>2. Cardinality(Holding("ollama")) <= Cardinality(Registered)
          BY <1>b, <2>0, <2>3, <3>1
        <4>3. Cardinality(Holding("ollama")) \in Nat /\ Cardinality(Registered) \in Nat
          BY <1>a, <2>0, <2>3, <3>1
        <4>4. QED
          BY <1>c, <2>2, <2>3, <3>1, <4>1, <4>2, <4>3
      <3>2. CASE ~(Admit /\ Profile[poll.job] = "ollama")
        <4>1. Cardinality(Holding("ollama")) \in Nat /\ Cardinality(Holding("ollama")') \in Nat
          BY <1>a, <2>0
        <4>2. QED
          BY <1>c, <2>1, <3>2, <4>1 DEF SlotInv
      <3>3. QED
        BY <3>1, <3>2
    <2>5. Cardinality(Holding("embed")') <= EmbedSlots
      <3>1. CASE Admit /\ Profile[poll.job] = "embed"
        <4>1. Cardinality(Embed(Registered)) < EmbedSlots
          BY <3>1 DEF Admit, CanAdmit, EmbedGate
        <4>2. Embed(Registered) \subseteq Jobs
          BY <2>3, <3>1 DEF Embed
        <4>3. Cardinality(Holding("embed")) <= Cardinality(Embed(Registered))
          BY <1>b, <2>0, <2>3, <3>1, <4>2
        <4>4. Cardinality(Holding("embed")) \in Nat /\ Cardinality(Embed(Registered)) \in Nat
          BY <1>a, <2>0, <4>2
        <4>5. QED
          BY <1>c, <2>2, <2>3, <3>1, <4>1, <4>3, <4>4
      <3>2. CASE ~(Admit /\ Profile[poll.job] = "embed")
        <4>1. Cardinality(Holding("embed")) \in Nat /\ Cardinality(Holding("embed")') \in Nat
          BY <1>a, <2>0
        <4>2. QED
          BY <1>c, <2>1, <3>2, <4>1 DEF SlotInv
      <3>3. QED
        BY <3>1, <3>2
    <2>6. QED
      BY <2>4, <2>5 DEF SlotInv
  <1>3. TypeOK /\ SlotInv => SlotsRespected
    <2> SUFFICES ASSUME TypeOK, SlotInv, \A j \in ExecutingJobs : NeverPreempted(j)
                 PROVE  /\ Cardinality({j \in ExecutingJobs : Profile[j] = "ollama"}) <= MaxSlots
                        /\ Cardinality(Embed(ExecutingJobs)) <= EmbedSlots
      BY DEF SlotsRespected
    <2>1. /\ {j \in ExecutingJobs : Profile[j] = "ollama"} \subseteq Holding("ollama")
          /\ Embed(ExecutingJobs) \subseteq Holding("embed")
          /\ Holding("ollama") \subseteq Jobs /\ Holding("embed") \subseteq Jobs
      BY ExecutingHolds DEF Holding, Embed
    <2>2. /\ Cardinality({j \in ExecutingJobs : Profile[j] = "ollama"}) <= Cardinality(Holding("ollama"))
          /\ Cardinality(Embed(ExecutingJobs)) <= Cardinality(Holding("embed"))
      BY <1>b, <2>1
    <2>3. /\ Cardinality({j \in ExecutingJobs : Profile[j] = "ollama"}) \in Nat
          /\ Cardinality(Embed(ExecutingJobs)) \in Nat
          /\ Cardinality(Holding("ollama")) \in Nat /\ Cardinality(Holding("embed")) \in Nat
      BY <1>a, <2>1
    <2>4. QED
      BY <1>c, <2>2, <2>3 DEF SlotInv
  <1>4. QED
    BY <1>1, <1>2, <1>3, TypeCorrect, TrackedLemma, PTL DEF Spec
=============================================================================
