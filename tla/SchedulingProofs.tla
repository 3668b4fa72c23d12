-------------------------- MODULE SchedulingProofs --------------------------
\* What is proved of the scheduling side that the page orders: recurring jobs, deferrals and
\* the sessions of evaluation runs, each for itself and then as parts of Dashboard.
EXTENDS Dashboard, TLAPS

-----------------------------------------------------------------------------
\* Recurring jobs: Recurring.

Steps == {"idle", "run", "close", "read", "count", "next"}
Busy == {"run", "close", "read", "count"}
Open == J!Waiting \union {"running", "deferred"}

RowsTyped ==
    recurring \in [RecurringJobs -> [present : BOOLEAN, enabled : BOOLEAN, due : BOOLEAN,
                                     left : 1..MaxRuns]]
JobsTyped ==
    instance \in [Instances -> [owner : RecurringJobs \union {NoSchedule}, promoted : BOOLEAN,
                                status : {"absent", "pending", "retry", "running", "deferred",
                                          "over"},
                                deferred : BOOLEAN]]
PromoterTyped ==
    promoter \in [pc : {"top", "promote", "pick", "admit"}, due : SUBSET RecurringJobs,
                  skipped : SUBSET RecurringJobs, job : Instances \union {NoInstance}]
RunnersTyped ==
    runner \in [PoolThreads -> [job : Instances \union {NoInstance}, at : Steps,
                                left : 0..MaxRuns]]
TallyTyped == tally \in [RecurringJobs -> [done : Nat, extra : Nat, raced : BOOLEAN]]
Bounded == asks \in 0..MaxAsks /\ halts \in 0..MaxHalts

\* What the poll thread or a worker holds is a job that was submitted.
Held ==
    /\ promoter.pc = "admit" =>
         promoter.job \in Instances /\ instance[promoter.job].status # "absent"
    /\ \A w \in PoolThreads :
         /\ runner[w].at = "idle" => runner[w].job = NoInstance
         /\ runner[w].at # "idle" => /\ runner[w].job \in Instances
                                     /\ instance[runner[w].job].status # "absent"

Owned ==
    \A i \in Instances :
      /\ instance[i].status = "absent" => ~instance[i].promoted
      /\ instance[i].status # "absent" => instance[i].owner \in RecurringJobs
      /\ instance[i].status = "deferred" => instance[i].deferred

RecurringTyped == RowsTyped /\ JobsTyped /\ PromoterTyped /\ RunnersTyped /\ TallyTyped /\ Bounded
TypeInv == RecurringTyped /\ Held /\ Owned

\* A worker that is not idle has a job that was submitted, of a recurring job.
LEMMA HeldJobs ==
  ASSUME TypeInv, NEW w \in PoolThreads, runner[w].at # "idle"
  PROVE  /\ runner[w].job \in Instances /\ instance[runner[w].job].status # "absent"
         /\ J!OwnerOf(w) \in RecurringJobs
  BY DEF TypeInv, Held, Owned, J!OwnerOf

\* A job that is submitted is a job (submit_job).
LEMMA SubmitTyped ==
  ASSUME JobsTyped, NEW s \in RecurringJobs, NEW b \in BOOLEAN, J!Submit(s, b)
  PROVE  JobsTyped'
  BY DEF JobsTyped, J!Submit

\* What is noted of a race is noted of a schedule.
LEMMA RacedTyped ==
  ASSUME TallyTyped, NEW s \in RecurringJobs, NEW c, J!Raced(s, c)
  PROVE  TallyTyped'
  <1>1. (tally[s].raced \/ c) \in BOOLEAN
    OBVIOUS
  <1>2. QED
    BY <1>1 DEF TallyTyped, J!Raced

\* Every step of the scheduler, the pool and the endpoints keeps the kinds of values.
LEMMA RecurringTypes ==
  ASSUME J!RecurringAssumption, TypeInv, J!RecurringNext
  PROVE  RecurringTyped'
  <1> USE J!RecurringAssumption DEF J!RecurringAssumption
  <1>a. RowsTyped /\ JobsTyped /\ PromoterTyped /\ RunnersTyped /\ TallyTyped /\ Bounded
    BY DEF TypeInv, RecurringTyped
  <1>1. ASSUME NEW s \in RecurringJobs,
               J!Suspend(s) \/ J!Promote(s) \/ J!PromoteRaises(s) \/ J!SkipDuplicate(s)
        PROVE  RecurringTyped'
    <2>1. CASE J!Suspend(s) \/ J!SkipDuplicate(s)
      <3>a. /\ promoter.due \ {s} \in SUBSET RecurringJobs
            /\ promoter.skipped \union {s} \in SUBSET RecurringJobs
        BY <1>a DEF PromoterTyped
      <3>1. PromoterTyped'
        BY <1>a, <2>1, <3>a DEF J!Suspend, J!SkipDuplicate, PromoterTyped
      <3>2. QED
        BY <1>a, <2>1, <3>1 DEF J!Suspend, J!SkipDuplicate, RecurringTyped, RowsTyped,
           JobsTyped, RunnersTyped, TallyTyped, Bounded
    <2>2. CASE J!PromoteRaises(s)
      <3>1. PromoterTyped'
        BY <1>a, <2>2 DEF J!PromoteRaises, PromoterTyped, J!Top
      <3>2. QED
        BY <1>a, <2>2, <3>1 DEF J!PromoteRaises, RecurringTyped, RowsTyped, JobsTyped,
           RunnersTyped, TallyTyped, Bounded
    <2>3. CASE J!Promote(s)
      <3>1. PromoterTyped'
        BY <1>a, <2>3 DEF J!Promote, PromoterTyped
      <3>2. JobsTyped'
        <4>1. J!Submit(s, TRUE)
          BY <2>3 DEF J!Promote
        <4>2. QED
          BY <1>a, <4>1, SubmitTyped
      <3>3. TallyTyped'
        <4>1. J!Raced(s, J!Unfinished(s) \/ ~recurring[s].enabled)
          BY <2>3 DEF J!Promote
        <4>2. QED
          BY <1>a, <4>1, RacedTyped
      <3>4. QED
        BY <1>a, <2>3, <3>1, <3>2, <3>3
           DEF J!Promote, RecurringTyped, RowsTyped, RunnersTyped, Bounded
    <2>4. QED
      BY <1>1, <2>1, <2>2, <2>3
  <1>2. ASSUME J!GetDueRecurringJobs \/ J!NothingAdmitted \/ J!BatchSetNextRuns
        PROVE  RecurringTyped'
    <2>1. JobsTyped' /\ RunnersTyped' /\ Bounded' /\ TallyTyped'
      BY <1>2, <1>a DEF J!GetDueRecurringJobs, J!NothingAdmitted, J!BatchSetNextRuns,
         JobsTyped, RunnersTyped, Bounded, TallyTyped
    <2>2. CASE J!GetDueRecurringJobs
      <3>1. PromoterTyped'
        BY <1>a, <2>2 DEF J!GetDueRecurringJobs, PromoterTyped, J!Top
      <3>2. QED
        BY <1>a, <2>1, <2>2, <3>1 DEF J!GetDueRecurringJobs, RowsTyped, RecurringTyped
    <2>3. CASE J!NothingAdmitted
      BY <1>a, <2>1, <2>3 DEF J!NothingAdmitted, PromoterTyped, RowsTyped, J!Top,
         RecurringTyped
    <2>4. CASE J!BatchSetNextRuns
      <3>1. PromoterTyped'
        BY <1>a, <2>4 DEF J!BatchSetNextRuns, PromoterTyped, J!Top
      <3>2. RowsTyped'
        <4>1. ASSUME NEW s \in RecurringJobs, NEW b \in BOOLEAN
              PROVE  [recurring[s] EXCEPT !.due = b] \in [present : BOOLEAN, enabled : BOOLEAN,
                        due : BOOLEAN, left : 1..MaxRuns]
          BY <1>a DEF RowsTyped
        <4>2. QED
          BY <2>4, <4>1 DEF J!BatchSetNextRuns, RowsTyped
      <3>3. QED
        BY <2>1, <3>1, <3>2 DEF RecurringTyped
    <2>5. QED
      BY <1>2, <2>2, <2>3, <2>4
  <1>3. ASSUME NEW i \in Instances, J!ReadPending(i) PROVE RecurringTyped'
    BY <1>3, <1>a DEF J!ReadPending, RecurringTyped, RowsTyped, JobsTyped, PromoterTyped,
       RunnersTyped, TallyTyped, Bounded
  <1>4. ASSUME NEW w \in PoolThreads, J!StartInstance(w) PROVE RecurringTyped'
    <2>1. RowsTyped' /\ Bounded' /\ PromoterTyped'
      BY <1>4, <1>a DEF J!StartInstance, RowsTyped, Bounded, PromoterTyped, J!Top
    <2>2. promoter.job \in Instances
      BY <1>4 DEF J!StartInstance, TypeInv, Held
    <2>3. JobsTyped'
      BY <1>4, <1>a, <2>2 DEF J!StartInstance, JobsTyped
    <2>4. RunnersTyped'
      BY <1>4, <1>a, <2>2 DEF J!StartInstance, RunnersTyped, Steps
    <2>5. TallyTyped'
      BY <1>4, <1>a, <2>2 DEF J!StartInstance, TallyTyped, J!Raced
    <2>6. QED
      BY <2>1, <2>3, <2>4, <2>5 DEF RecurringTyped
  <1>5. ASSUME NEW w \in PoolThreads,
               J!Succeeds(w) \/ J!Fails(w) \/ J!TimesOut(w) \/ J!CheckSaysSkip(w)
                 \/ J!CheckCloses(w)
        PROVE  RecurringTyped'
    <2> USE DEF J!Succeeds, J!Fails, J!TimesOut, J!CheckSaysSkip, J!CheckCloses
    <2>1. RowsTyped' /\ Bounded' /\ PromoterTyped'
      BY <1>5, <1>a DEF RowsTyped, Bounded, PromoterTyped
    <2>2. runner[w].job \in Instances /\ J!OwnerOf(w) \in RecurringJobs
      BY <1>5, HeldJobs
    <2>3. JobsTyped'
      BY <1>5, <1>a, <2>2 DEF JobsTyped, J!Ends
    <2>4. RunnersTyped'
      BY <1>5, <1>a DEF RunnersTyped, Steps, J!GoesTo, J!Leaves, J!FreeThread
    <2>5. TallyTyped'
      BY <1>5, <1>a, <2>2 DEF TallyTyped
    <2>6. QED
      BY <2>1, <2>3, <2>4, <2>5 DEF RecurringTyped
  <1>6. ASSUME NEW w \in PoolThreads, 
               J!CheckSaysDone(w) \/ J!ReadMaxRuns(w) \/ J!CountDown(w) \/ J!UpdateNextRun(w)
        PROVE  RecurringTyped'
    <2> USE DEF J!CheckSaysDone, J!ReadMaxRuns, J!CountDown, J!UpdateNextRun
    <2>1. JobsTyped' /\ TallyTyped' /\ Bounded' /\ PromoterTyped'
      BY <1>6, <1>a DEF JobsTyped, TallyTyped, Bounded, PromoterTyped
    <2>2. runner[w].job \in Instances /\ J!OwnerOf(w) \in RecurringJobs
      BY <1>6, HeldJobs
    <2>3. RunnersTyped'
      <3>1. recurring[J!OwnerOf(w)].left \in 0..MaxRuns
        BY <1>a, <2>2 DEF RowsTyped
      <3>2. QED
        BY <1>6, <1>a, <3>1 DEF RunnersTyped, Steps, J!GoesTo, J!Leaves, J!FreeThread
    <2>4. RowsTyped'
      <3>1. CASE J!CountDown(w)
        <4>1. CASE runner[w].left <= 1
          BY <1>a, <3>1, <4>1, <2>2 DEF RowsTyped
        <4>2. CASE ~(runner[w].left <= 1)
          <5>1. runner[w].left - 1 \in 1..MaxRuns
            BY <1>a, <4>2 DEF RunnersTyped
          <5>2. QED
            BY <1>a, <3>1, <4>2, <5>1, <2>2 DEF RowsTyped
        <4>3. QED
          BY <4>1, <4>2
      <3>2. CASE J!CheckSaysDone(w)
        BY <1>a, <3>2, <2>2 DEF RowsTyped
      <3>3. CASE J!ReadMaxRuns(w)
        BY <1>a, <3>3, <2>2 DEF RowsTyped
      <3>4. CASE J!UpdateNextRun(w)
        BY <1>a, <3>4, <2>2 DEF RowsTyped
      <3>5. QED
        BY <1>6, <3>1, <3>2, <3>3, <3>4
    <2>5. QED
      BY <2>1, <2>3, <2>4 DEF RecurringTyped
  <1>7. ASSUME NEW s \in RecurringJobs,
               J!NextRunPasses(s) \/ J!Rebalance(s) \/ J!Enable(s) \/ J!Disable(s)
                 \/ J!RunNow(s) \/ J!Delete(s)
        PROVE RecurringTyped'
    <2> USE DEF J!NextRunPasses, J!Rebalance, J!Enable, J!Disable, J!RunNow, J!Delete
    <2>1. PromoterTyped' /\ RunnersTyped'
      BY <1>7, <1>a DEF PromoterTyped, RunnersTyped
    <2>a. Bounded'
      <3>1. CASE J!Enable(s) \/ J!RunNow(s)
        <4>1. asks < MaxAsks /\ asks' = asks + 1 /\ halts' = halts
          BY <3>1
        <4>2. QED
          BY <1>a, <4>1 DEF Bounded
      <3>2. QED
        BY <1>7, <1>a, <3>1 DEF Bounded
    <2>2. JobsTyped'
      <3>1. CASE J!RunNow(s)
        <4>1. J!Submit(s, FALSE)
          BY <3>1
        <4>2. QED
          BY <1>a, <4>1, SubmitTyped
      <3>2. QED
        BY <1>7, <1>a, <3>1 DEF JobsTyped
    <2>3. TallyTyped'
      <3>1. CASE J!RunNow(s)
        <4>1. (tally[s].raced \/ J!Unfinished(s)) \in BOOLEAN
          OBVIOUS
        <4>2. tally[s].extra + 1 \in Nat
          BY <1>a DEF TallyTyped
        <4>3. tally' = [tally EXCEPT ![s] = [@ EXCEPT !.extra = tally[s].extra + 1,
                                                     !.raced = tally[s].raced \/ J!Unfinished(s)]]
          BY <1>a, <3>1 DEF TallyTyped
        <4>4. QED
          BY <1>a, <4>1, <4>2, <4>3 DEF TallyTyped
      <3>2. CASE J!Enable(s)
        BY <1>a, <3>2 DEF TallyTyped
      <3>3. QED
        BY <1>7, <1>a, <3>1, <3>2 DEF TallyTyped
    <2>4. RowsTyped'
      <3>1. CASE J!NextRunPasses(s)
        BY <1>a, <3>1 DEF RowsTyped
      <3>2. CASE J!Rebalance(s)
        BY <1>a, <3>2 DEF RowsTyped
      <3>3. CASE J!Enable(s)
        BY <1>a, <3>3 DEF RowsTyped
      <3>4. CASE J!Disable(s)
        BY <1>a, <3>4 DEF RowsTyped
      <3>5. CASE J!Delete(s)
        BY <1>a, <3>5 DEF RowsTyped
      <3>6. CASE J!RunNow(s)
        BY <1>a, <3>6 DEF RowsTyped
      <3>7. QED
        BY <1>7, <3>1, <3>2, <3>3, <3>4, <3>5, <3>6
    <2>5. QED
      BY <2>1, <2>a, <2>2, <2>3, <2>4 DEF RecurringTyped
  <1>8. ASSUME NEW i \in Instances,
               J!CancelInstance(i) \/ J!DeferInstance(i) \/ J!ResumeInstance(i)
                 \/ J!BackoffElapses(i)
        PROVE  RecurringTyped'
    <2> USE DEF J!CancelInstance, J!DeferInstance, J!ResumeInstance, J!BackoffElapses
    <2>1. RowsTyped' /\ PromoterTyped' /\ RunnersTyped' /\ TallyTyped' /\ Bounded'
      BY <1>8, <1>a DEF RowsTyped, PromoterTyped, RunnersTyped, TallyTyped, Bounded
    <2>2. JobsTyped'
      BY <1>8, <1>a DEF JobsTyped
    <2>3. QED
      BY <2>1, <2>2 DEF RecurringTyped
  <1>9. CASE J!DaemonCrashes
    <2> USE <1>9 DEF J!DaemonCrashes
    <2>1. RowsTyped' /\ PromoterTyped' /\ Bounded'
      BY <1>a DEF RowsTyped, PromoterTyped, Bounded, J!Top
    <2>2. RunnersTyped'
      BY <1>a DEF RunnersTyped, J!FreeThread, Steps
    <2>3. JobsTyped'
      BY <1>a DEF JobsTyped
    <2>4. TallyTyped'
      BY <1>a DEF TallyTyped
    <2>5. QED
      BY <2>1, <2>2, <2>3, <2>4 DEF RecurringTyped
  <1>10. QED
    BY <1>1, <1>2, <1>3, <1>4, <1>5, <1>6, <1>7, <1>8, <1>9
       DEF J!RecurringNext, J!PollerStep, J!RunnerStep, J!OutsideStep
\* A job that was submitted stays, with its owner; whatever is promoted was so from the start.
Stay ==
    \A i \in Instances :
      instance[i].status # "absent" =>
        /\ instance'[i].status # "absent" /\ instance'[i].owner = instance[i].owner
        /\ instance'[i].promoted = instance[i].promoted
        /\ instance[i].deferred => instance'[i].deferred

\* A job that was submitted stays the job of its schedule, and is not unsubmitted.
LEMMA JobsStay ==
  ASSUME J!RecurringAssumption, TypeInv, J!RecurringNext
  PROVE  Stay
  <1>a. JobsTyped
    BY DEF TypeInv, RecurringTyped
  <1>1. ASSUME NEW s \in RecurringJobs, NEW b \in BOOLEAN, J!Submit(s, b) PROVE Stay
    BY <1>1, <1>a DEF J!Submit, JobsTyped, Stay
  <1>2. CASE UNCHANGED instance
    BY <1>2 DEF Stay
  <1>3. ASSUME NEW w \in PoolThreads, J!StartInstance(w) PROVE Stay
    <2>1. promoter.job \in Instances
      BY <1>3 DEF J!StartInstance, TypeInv, Held
    <2>2. QED
      BY <1>3, <1>a, <2>1 DEF J!StartInstance, JobsTyped, Stay
  <1>4. ASSUME NEW w \in PoolThreads, runner[w].at # "idle", NEW e \in {"retry", "over"},
               J!Ends(w, e)
        PROVE  Stay
    <2>1. runner[w].job \in Instances
      BY <1>4, HeldJobs
    <2>2. QED
      BY <1>4, <1>a, <2>1 DEF J!Ends, JobsTyped, Stay
  <1>5. ASSUME NEW w \in PoolThreads,
               J!Succeeds(w) \/ J!Fails(w) \/ J!TimesOut(w) \/ J!CheckSaysSkip(w)
                 \/ J!CheckCloses(w)
        PROVE  Stay
    BY <1>4, <1>5 DEF J!Succeeds, J!Fails, J!TimesOut, J!CheckSaysSkip, J!CheckCloses
  <1>6. ASSUME NEW i \in Instances,
               J!CancelInstance(i) \/ J!DeferInstance(i) \/ J!ResumeInstance(i)
                 \/ J!BackoffElapses(i)
        PROVE  Stay
    BY <1>6, <1>a DEF J!CancelInstance, J!DeferInstance, J!ResumeInstance,
       J!BackoffElapses, JobsTyped, Stay
  <1>7. CASE J!DaemonCrashes
    BY <1>7, <1>a DEF J!DaemonCrashes, JobsTyped, Stay
  <1>8. CASE J!PollerStep
    BY <1>1, <1>2, <1>3, <1>8 DEF J!PollerStep, J!GetDueRecurringJobs, J!BatchSetNextRuns,
       J!NothingAdmitted, J!Suspend, J!Promote, J!PromoteRaises, J!SkipDuplicate,
       J!ReadPending
  <1>9. CASE J!RunnerStep
    BY <1>2, <1>5, <1>9 DEF J!RunnerStep, J!CheckSaysDone, J!ReadMaxRuns, J!CountDown,
       J!UpdateNextRun
  <1>10. CASE J!OutsideStep
    BY <1>1, <1>2, <1>6, <1>10 DEF J!OutsideStep, J!NextRunPasses, J!Rebalance, J!Enable,
       J!Disable, J!RunNow, J!Delete
  <1>11. QED
    BY <1>7, <1>8, <1>9, <1>10 DEF J!RecurringNext

\* No step leaves the poll thread or a worker with a job that was never submitted.
LEMMA HeldKept ==
  ASSUME J!RecurringAssumption, TypeInv, J!RecurringNext
  PROVE  Held'
  <1>a. JobsTyped /\ PromoterTyped /\ RunnersTyped /\ Held /\ Stay
    BY JobsStay DEF TypeInv, RecurringTyped
  <1>1. promoter'.pc = "admit" =>
          promoter'.job \in Instances /\ instance'[promoter'.job].status # "absent"
    <2>1. CASE UNCHANGED promoter
      BY <1>a, <2>1 DEF Held, Stay
    <2>2. CASE promoter'.pc # "admit"
      BY <2>2
    <2>3. ASSUME NEW i \in Instances, J!ReadPending(i)
          PROVE  promoter'.job \in Instances /\ instance'[promoter'.job].status # "absent"
      BY <1>a, <2>3 DEF J!ReadPending, PromoterTyped
    <2>4. ASSUME NEW s \in RecurringJobs,
                 J!Suspend(s) \/ J!Promote(s) \/ J!PromoteRaises(s) \/ J!SkipDuplicate(s)
          PROVE  promoter'.pc # "admit"
      BY <1>a, <2>4 DEF J!Suspend, J!Promote, J!PromoteRaises, J!SkipDuplicate,
         PromoterTyped, J!Top
    <2>5. ASSUME J!GetDueRecurringJobs \/ J!BatchSetNextRuns \/ J!NothingAdmitted
                 \/ J!DaemonCrashes
                 \/ \E w \in PoolThreads : J!StartInstance(w)
          PROVE  promoter'.pc # "admit"
      <3>1. CASE J!GetDueRecurringJobs \/ J!BatchSetNextRuns
        BY <3>1 DEF J!GetDueRecurringJobs, J!BatchSetNextRuns, J!Top
      <3>2. CASE promoter' = J!Top
        BY <3>2 DEF J!Top
      <3>3. QED
        BY <2>5, <3>1, <3>2 DEF J!NothingAdmitted, J!DaemonCrashes, J!StartInstance
    <2>6. CASE J!RunnerStep
      BY <2>1, <2>6 DEF J!RunnerStep, J!Succeeds, J!Fails, J!TimesOut, J!CheckSaysSkip,
         J!CheckSaysDone, J!CheckCloses, J!ReadMaxRuns, J!CountDown, J!UpdateNextRun
    <2>7. CASE J!OutsideStep
      BY <2>1, <2>7 DEF J!OutsideStep, J!NextRunPasses, J!Rebalance, J!Enable, J!Disable,
         J!RunNow, J!Delete, J!CancelInstance, J!DeferInstance, J!ResumeInstance,
         J!BackoffElapses
    <2>8. QED
      BY <2>3, <2>4, <2>5, <2>6, <2>7 DEF J!RecurringNext, J!PollerStep
  <1>2. ASSUME NEW v \in PoolThreads
        PROVE  /\ runner'[v].at = "idle" => runner'[v].job = NoInstance
               /\ runner'[v].at # "idle" => /\ runner'[v].job \in Instances
                                            /\ instance'[runner'[v].job].status # "absent"
    <2>1. CASE UNCHANGED runner
      BY <1>a, <2>1 DEF Held, Stay
    <2>2. ASSUME NEW w \in PoolThreads, J!StartInstance(w) PROVE <1>2!2
      BY <1>a, <2>2 DEF J!StartInstance, Held, Stay, RunnersTyped
    <2>3. ASSUME NEW w \in PoolThreads, runner[w].at # "idle", NEW e, e # "idle",
                 J!GoesTo(w, e) \/ J!Leaves(w)
          PROVE  <1>2!2
      BY <1>a, <2>3 DEF J!GoesTo, J!Leaves, J!FreeThread, Held, Stay, RunnersTyped
    <2>4. ASSUME NEW w \in PoolThreads, J!ReadMaxRuns(w) PROVE <1>2!2
      BY <1>a, <2>4 DEF J!ReadMaxRuns, Held, Stay, RunnersTyped
    <2>5. CASE J!DaemonCrashes
      BY <2>5 DEF J!DaemonCrashes, J!FreeThread
    <2>6. CASE J!RunnerStep
      BY <2>3, <2>4, <2>6 DEF J!RunnerStep, J!Succeeds, J!Fails, J!TimesOut,
         J!CheckSaysSkip, J!CheckSaysDone, J!CheckCloses, J!CountDown, J!UpdateNextRun
    <2>7. CASE J!OutsideStep
      BY <2>1, <2>7 DEF J!OutsideStep, J!NextRunPasses, J!Rebalance, J!Enable, J!Disable,
         J!RunNow, J!Delete, J!CancelInstance, J!DeferInstance, J!ResumeInstance,
         J!BackoffElapses
    <2>8. CASE J!PollerStep
      BY <2>1, <2>2, <2>8 DEF J!PollerStep, J!GetDueRecurringJobs, J!BatchSetNextRuns,
         J!NothingAdmitted, J!Suspend, J!Promote, J!PromoteRaises, J!SkipDuplicate,
         J!ReadPending
    <2>9. QED
      BY <2>5, <2>6, <2>7, <2>8 DEF J!RecurringNext
  <1>3. QED
    BY <1>1, <1>2 DEF Held

\* No step leaves a submitted job without its schedule.
LEMMA OwnedKept ==
  ASSUME J!RecurringAssumption, TypeInv, J!RecurringNext
  PROVE  Owned'
  <1>a. JobsTyped /\ Owned /\ Stay
    BY JobsStay DEF TypeInv, RecurringTyped
  <1>1. ASSUME NEW i \in Instances
        PROVE  /\ \/ instance[i].status # "absent"
                  \/ instance'[i] = instance[i]
                  \/ instance'[i].status # "absent" /\ instance'[i].owner \in RecurringJobs
               /\ \/ instance'[i].status # "deferred"
                  \/ instance'[i].status = instance[i].status
                  \/ instance'[i].deferred
    <2>1. CASE UNCHANGED instance
      BY <2>1
    <2>2. ASSUME NEW s \in RecurringJobs, NEW b \in BOOLEAN, J!Submit(s, b) PROVE <1>1!2
      BY <1>a, <2>2 DEF J!Submit, JobsTyped
    <2>3. ASSUME NEW k \in Instances, instance[k].status # "absent", NEW e, e # "deferred",
                 instance' = [instance EXCEPT ![k].status = e]
          PROVE  <1>1!2
      BY <1>a, <2>3 DEF JobsTyped
    <2>a. ASSUME NEW k \in Instances, J!DeferInstance(k) PROVE <1>1!2
      BY <1>a, <2>a DEF J!DeferInstance, JobsTyped, J!Waiting
    <2>4. ASSUME NEW w \in PoolThreads, J!StartInstance(w) PROVE <1>1!2
      BY <2>3, <2>4 DEF J!StartInstance, TypeInv, Held
    <2>5. ASSUME NEW w \in PoolThreads, runner[w].at # "idle", NEW e \in {"retry", "over"},
                 J!Ends(w, e)
          PROVE  <1>1!2
      BY <2>3, <2>5, HeldJobs DEF J!Ends
    <2>6. CASE J!DaemonCrashes
      BY <1>a, <2>6 DEF J!DaemonCrashes, JobsTyped
    <2>7. CASE J!RunnerStep
      BY <2>1, <2>5, <2>7 DEF J!RunnerStep, J!Succeeds, J!Fails, J!TimesOut,
         J!CheckSaysSkip, J!CheckCloses, J!CheckSaysDone, J!ReadMaxRuns, J!CountDown,
         J!UpdateNextRun
    <2>8. CASE J!OutsideStep
      BY <2>1, <2>2, <2>3, <2>a, <2>8 DEF J!OutsideStep, J!NextRunPasses, J!Rebalance,
         J!Enable, J!Disable, J!RunNow, J!Delete, J!CancelInstance, J!ResumeInstance,
         J!BackoffElapses, J!Waiting
    <2>9. CASE J!PollerStep
      BY <2>1, <2>2, <2>4, <2>9 DEF J!PollerStep, J!GetDueRecurringJobs,
         J!BatchSetNextRuns, J!NothingAdmitted, J!Suspend, J!Promote, J!PromoteRaises,
         J!SkipDuplicate, J!ReadPending
    <2>10. QED
      BY <2>6, <2>7, <2>8, <2>9 DEF J!RecurringNext
  <1>2. QED
    BY <1>a, <1>1 DEF Owned, Stay
-----------------------------------------------------------------------------
\* A job is in the hands of one worker while it runs or is counted, and the poll thread
\* is not about to start it.
Working ==
    \A w \in PoolThreads :
      /\ runner[w].at \in {"run", "close"} => instance[runner[w].job].status = "running"
      /\ runner[w].at \in {"read", "count"} => instance[runner[w].job].status = "over"
      /\ runner[w].at \in Busy =>
           /\ ~(promoter.pc = "admit" /\ promoter.job = runner[w].job)
           /\ \A v \in PoolThreads :
                runner[v].at \in Busy /\ runner[v].job = runner[w].job => v = w

\* No step puts a job in the hands of two workers, or of a worker and the queue.
LEMMA WorkingKept ==
  ASSUME J!RecurringAssumption, TypeInv, Working, J!RecurringNext
  PROVE  Working'
  <1>a. JobsTyped /\ PromoterTyped /\ RunnersTyped /\ Held
    BY DEF TypeInv, RecurringTyped
  <1>b. ASSUME NEW w \in PoolThreads, runner[w].at # "idle"
        PROVE  runner[w].job \in Instances /\ instance[runner[w].job].status # "absent"
    BY <1>b, HeldJobs
  <1>1. ASSUME UNCHANGED <<instance, runner>>,
               promoter'.pc = "admit" => promoter'.job = promoter.job /\ promoter.pc = "admit"
        PROVE  Working'
    BY <1>1 DEF Working
  <1>2. ASSUME NEW s \in RecurringJobs, NEW b \in BOOLEAN, J!Submit(s, b),
               UNCHANGED runner, promoter'.pc = promoter.pc, promoter'.job = promoter.job
        PROVE  Working'
    BY <1>a, <1>b, <1>2 DEF Working, J!Submit, JobsTyped, Busy
  <1>3. ASSUME NEW i \in Instances, J!ReadPending(i) PROVE Working'
    BY <1>a, <1>3 DEF J!ReadPending, Working, PromoterTyped, Busy
  <1>4. ASSUME NEW w \in PoolThreads, J!StartInstance(w) PROVE Working'
    <2>1. promoter.job \in Instances /\ promoter'.pc # "admit" /\ runner[w].at = "idle"
      BY <1>a, <1>4 DEF J!StartInstance, Held, J!Top, J!FreeThread
    <2>2. \A v \in PoolThreads : runner[v].at \in Busy => runner[v].job # promoter.job
      BY <1>4 DEF J!StartInstance, Working
    <2>3. /\ runner'[w].job = promoter.job /\ runner'[w].at = "run"
          /\ instance'[promoter.job].status = "running"
          /\ \A v \in PoolThreads : v # w => runner'[v] = runner[v]
          /\ \A i \in Instances : i # promoter.job => instance'[i] = instance[i]
      BY <1>a, <1>4, <2>1 DEF J!StartInstance, RunnersTyped, JobsTyped
    <2>4. QED
      BY <1>b, <2>1, <2>2, <2>3 DEF Working, Busy
  <1>5. ASSUME NEW w \in PoolThreads, runner[w].at \in Busy, NEW e, J!Ends(w, e),
               UNCHANGED promoter,
               \/ e = "over" /\ J!GoesTo(w, "read")
               \/ J!GoesTo(w, "next") \/ J!Leaves(w)
        PROVE  Working'
    <2>1. runner[w].job \in Instances /\ runner[w].at # "idle"
      BY <1>b, <1>5 DEF Busy
    <2>2. /\ instance'[runner[w].job].status = e
          /\ \A i \in Instances : i # runner[w].job => instance'[i] = instance[i]
      BY <1>a, <1>5, <2>1 DEF J!Ends, JobsTyped
    <2>3. /\ \A v \in PoolThreads : v # w => runner'[v] = runner[v]
          /\ runner'[w].at \in {"read", "next", "idle"}
          /\ runner'[w].at = "read" => e = "over" /\ runner'[w].job = runner[w].job
      BY <1>a, <1>5 DEF J!GoesTo, J!Leaves, RunnersTyped, J!FreeThread
    <2>4. QED
      BY <1>b, <1>5, <2>1, <2>2, <2>3 DEF Working, Busy
  <1>6. ASSUME NEW w \in PoolThreads, UNCHANGED <<instance, promoter>>,
               \A v \in PoolThreads : v # w => runner'[v] = runner[v],
               \/ runner[w].at = "run" /\ runner'[w].at = "close"
               \/ runner[w].at = "read" /\ runner'[w].at = "count"
               \/ runner'[w].at \in {"next", "idle"},
               runner'[w].at # "idle" => runner'[w].job = runner[w].job
        PROVE  Working'
    BY <1>6 DEF Working, Busy
  <1>7. ASSUME NEW w \in PoolThreads,
               J!CheckSaysDone(w) \/ J!ReadMaxRuns(w) \/ J!CountDown(w) \/ J!UpdateNextRun(w)
        PROVE  Working'
    <2>1. /\ UNCHANGED <<instance, promoter>>
          /\ \A v \in PoolThreads : v # w => runner'[v] = runner[v]
      BY <1>a, <1>7 DEF J!CheckSaysDone, J!ReadMaxRuns, J!CountDown, J!UpdateNextRun,
         J!GoesTo, J!Leaves, RunnersTyped
    <2>2. CASE J!CheckSaysDone(w) \/ J!CountDown(w)
      BY <1>a, <1>6, <2>1, <2>2 DEF J!CheckSaysDone, J!CountDown, J!GoesTo, RunnersTyped
    <2>3. CASE J!ReadMaxRuns(w)
      BY <1>a, <1>6, <2>1, <2>3 DEF J!ReadMaxRuns, RunnersTyped
    <2>4. CASE J!UpdateNextRun(w)
      BY <1>a, <1>6, <2>1, <2>4 DEF J!UpdateNextRun, J!Leaves, J!FreeThread, RunnersTyped
    <2>5. QED
      BY <1>7, <2>2, <2>3, <2>4
  <1>8. ASSUME NEW w \in PoolThreads,
               J!Succeeds(w) \/ J!Fails(w) \/ J!TimesOut(w) \/ J!CheckSaysSkip(w)
                 \/ J!CheckCloses(w)
        PROVE  Working'
    BY <1>5, <1>8 DEF J!Succeeds, J!Fails, J!TimesOut, J!CheckSaysSkip, J!CheckCloses, Busy
  <1>9. ASSUME NEW i \in Instances,
               J!CancelInstance(i) \/ J!DeferInstance(i) \/ J!ResumeInstance(i)
                 \/ J!BackoffElapses(i)
        PROVE  Working'
    <2>1. /\ instance[i].status \notin {"running", "over"} /\ UNCHANGED <<runner, promoter>>
          /\ \A k \in Instances : k # i => instance'[k] = instance[k]
      BY <1>a, <1>9 DEF J!CancelInstance, J!DeferInstance, J!ResumeInstance,
         J!BackoffElapses, J!Waiting, JobsTyped
    <2>2. \A w \in PoolThreads : runner[w].at \in Busy
            => runner[w].job # i /\ runner[w].job \in Instances
      BY <1>b, <2>1 DEF Working, Busy
    <2>3. QED
      BY <2>1, <2>2 DEF Working, Busy
  <1>10. CASE J!DaemonCrashes
    BY <1>10 DEF J!DaemonCrashes, Working, J!FreeThread, Busy
  <1>11. CASE J!PollerStep
    <2>1. CASE \/ J!GetDueRecurringJobs \/ J!BatchSetNextRuns \/ J!NothingAdmitted
               \/ \E s \in RecurringJobs : J!Suspend(s) \/ J!PromoteRaises(s)
                  \/ J!SkipDuplicate(s)
      <3>1. UNCHANGED <<instance, runner>>
        BY <2>1 DEF J!GetDueRecurringJobs, J!BatchSetNextRuns, J!NothingAdmitted,
           J!Suspend, J!PromoteRaises, J!SkipDuplicate
      <3>2. promoter'.pc # "admit"
        <4>1. CASE J!GetDueRecurringJobs
          BY <4>1 DEF J!GetDueRecurringJobs, J!Top
        <4>3. CASE J!BatchSetNextRuns
          BY <4>3 DEF J!BatchSetNextRuns, J!Top
        <4>4. CASE J!NothingAdmitted
          BY <4>4 DEF J!NothingAdmitted, J!Top
        <4>2. CASE \E s \in RecurringJobs : J!Suspend(s) \/ J!PromoteRaises(s)
                   \/ J!SkipDuplicate(s)
          BY <1>a, <4>2 DEF J!Suspend, J!PromoteRaises, J!SkipDuplicate, J!Top,
             PromoterTyped
        <4>5. QED
          BY <2>1, <4>1, <4>2, <4>3, <4>4
      <3>3. QED
        BY <1>1, <3>1, <3>2
    <2>2. ASSUME NEW s \in RecurringJobs, J!Promote(s) PROVE Working'
      <3>1. promoter'.pc = promoter.pc /\ promoter'.job = promoter.job
        BY <1>a, <2>2 DEF J!Promote, PromoterTyped
      <3>2. QED
        BY <1>2, <2>2, <3>1 DEF J!Promote
    <2>3. QED
      BY <1>11, <2>1, <2>2, <1>3, <1>4 DEF J!PollerStep
  <1>12. CASE J!OutsideStep
    BY <1>1, <1>2, <1>9, <1>12 DEF J!OutsideStep, J!NextRunPasses, J!Rebalance, J!Enable,
       J!Disable, J!RunNow, J!Delete
  <1>13. QED
    BY <1>7, <1>8, <1>10, <1>11, <1>12 DEF J!RecurringNext, J!RunnerStep

-----------------------------------------------------------------------------
\* Promoted, never deferred, and waiting or running, or about to be started again.
Alive(i) ==
    /\ instance[i].promoted /\ ~instance[i].deferred
    /\ \/ instance[i].status \in J!Waiting \union {"running"}
       \/ promoter.pc = "admit" /\ promoter.job = i

PromotedApart ==
    \A i, k \in Instances :
        i # k /\ instance[i].owner = instance[k].owner /\ Alive(i) /\ Alive(k)
        => ~recurring[instance[i].owner].present

\* Only a promotion makes a promoted job wait or run that did not.
LEMMA Revived ==
  ASSUME J!RecurringAssumption, TypeInv, Working, J!RecurringNext,
         NEW i \in Instances, Alive(i)', ~Alive(i)
  PROVE  /\ instance[i].status = "absent"
         /\ \E s \in RecurringJobs : J!Promote(s) /\ instance'[i].owner = s
  <1>a. JobsTyped /\ PromoterTyped /\ RunnersTyped /\ Held /\ Owned
    BY DEF TypeInv, RecurringTyped
  <1>1. ASSUME instance'[i] = instance[i], promoter'.pc = "admit" => UNCHANGED promoter
        PROVE  FALSE
    BY <1>1 DEF Alive
  <1>2. ASSUME NEW k \in Instances, J!ReadPending(k) PROVE FALSE
    BY <1>a, <1>2 DEF J!ReadPending, Alive, PromoterTyped, J!Waiting
  <1>3. ASSUME NEW k \in Instances, NEW e, 
               \/ instance' = [instance EXCEPT ![k].status = e]
               \/ instance' = [instance EXCEPT ![k].status = e, ![k].deferred = TRUE],
               promoter'.pc = "admit" => UNCHANGED promoter,
               \/ e \notin J!Waiting \union {"running"}
               \/ instance[k].status \in J!Waiting \union {"running"}
               \/ instance[k].status = "deferred"
               \/ promoter.pc = "admit" /\ promoter.job = k
        PROVE  FALSE
    <2>1. /\ instance'[i].promoted = instance[i].promoted
          /\ instance[i].deferred => instance'[i].deferred
          /\ i # k => instance'[i] = instance[i]
          /\ i = k => instance'[i].status = e
      BY <1>a, <1>3 DEF JobsTyped
    <2>2. instance[i].status = "deferred" => instance[i].deferred
      BY <1>a DEF Owned
    <2>3. QED
      BY <1>3, <2>1, <2>2 DEF Alive
  <1>4. ASSUME NEW w \in PoolThreads, J!StartInstance(w) PROVE FALSE
    <2>1. promoter.job \in Instances /\ promoter'.pc # "admit"
      BY <1>a, <1>4 DEF J!StartInstance, Held, J!Top
    <2>2. QED
      BY <1>3, <1>4, <2>1 DEF J!StartInstance
  <1>5. ASSUME NEW w \in PoolThreads, runner[w].at # "idle", NEW e, J!Ends(w, e),
               UNCHANGED promoter,
               e = "over" \/ instance[runner[w].job].status = "running"
        PROVE  FALSE
    BY <1>3, <1>5, HeldJobs DEF J!Ends, J!Waiting
  <1>6. CASE J!DaemonCrashes
    <2>1. promoter'.pc # "admit"
      BY <1>6 DEF J!DaemonCrashes, J!Top
    <2>2. instance'[i] = [instance[i] EXCEPT !.status = IF @ = "running" THEN "pending" ELSE @]
      BY <1>6 DEF J!DaemonCrashes
    <2>3. /\ instance'[i].promoted = instance[i].promoted
          /\ instance'[i].deferred = instance[i].deferred
          /\ instance'[i].status = IF instance[i].status =
               "running" THEN "pending" ELSE instance[i].status
      BY <1>a, <2>2 DEF JobsTyped
    <2>4. QED
      BY <2>1, <2>3 DEF Alive, J!Waiting
  <1>7. ASSUME NEW w \in PoolThreads,
               J!Succeeds(w) \/ J!Fails(w) \/ J!TimesOut(w) \/ J!CheckSaysSkip(w)
                 \/ J!CheckCloses(w)
        PROVE  FALSE
    <2>1. runner[w].at \in {"run", "close"} /\ UNCHANGED promoter
      BY <1>7 DEF J!Succeeds, J!Fails, J!TimesOut, J!CheckSaysSkip, J!CheckCloses
    <2>2. instance[runner[w].job].status = "running"
      BY <2>1 DEF Working
    <2>3. QED
      BY <1>5, <1>7, <2>1, <2>2
         DEF J!Succeeds, J!Fails, J!TimesOut, J!CheckSaysSkip, J!CheckCloses
  <1>8. ASSUME NEW w \in PoolThreads,
               J!CheckSaysDone(w) \/ J!ReadMaxRuns(w) \/ J!CountDown(w) \/ J!UpdateNextRun(w)
        PROVE  FALSE
    BY <1>1, <1>8 DEF J!CheckSaysDone, J!ReadMaxRuns, J!CountDown, J!UpdateNextRun
  <1>9. ASSUME NEW k \in Instances,
               J!CancelInstance(k) \/ J!DeferInstance(k) \/ J!ResumeInstance(k)
                 \/ J!BackoffElapses(k)
        PROVE  FALSE
    BY <1>3, <1>9 DEF J!CancelInstance, J!DeferInstance, J!ResumeInstance,
       J!BackoffElapses, J!Waiting
  <1>10. ASSUME NEW s \in RecurringJobs, NEW b \in BOOLEAN, J!Submit(s, b),
                promoter'.pc # "admit" \/ UNCHANGED promoter
         PROVE  b /\ instance[i].status = "absent" /\ instance'[i].owner = s
    <2>1. PICK k \in Instances : /\ instance[k].status = "absent"
                                 /\ instance' = [instance EXCEPT ![k] =
                                      [owner |-> s, promoted |-> b, status |-> "pending",
                                       deferred |-> FALSE]]
      BY <1>10 DEF J!Submit
    <2>2. i = k
      BY <1>a, <1>1, <1>10, <2>1 DEF JobsTyped
    <2>3. QED
      BY <1>a, <2>1, <2>2 DEF JobsTyped, Alive
  <1>11. ASSUME NEW s \in RecurringJobs,
                J!Suspend(s) \/ J!PromoteRaises(s) \/ J!SkipDuplicate(s)
         PROVE  FALSE
    <2>1. promoter'.pc # "admit"
      BY <1>a, <1>11 DEF J!Suspend, J!PromoteRaises, J!SkipDuplicate, PromoterTyped, J!Top
    <2>2. QED
      BY <1>1, <1>11, <2>1 DEF J!Suspend, J!PromoteRaises, J!SkipDuplicate
  <1>12. ASSUME NEW s \in RecurringJobs, J!Promote(s)
         PROVE  instance[i].status = "absent" /\ instance'[i].owner = s
    <2>1. promoter'.pc # "admit"
      BY <1>a, <1>12 DEF J!Promote, PromoterTyped
    <2>2. QED
      BY <1>10, <1>12, <2>1 DEF J!Promote
  <1>13. ASSUME NEW s \in RecurringJobs,
                J!NextRunPasses(s) \/ J!Rebalance(s) \/ J!Enable(s) \/ J!Disable(s)
                  \/ J!RunNow(s) \/ J!Delete(s)
         PROVE  FALSE
    BY <1>1, <1>10, <1>13
       DEF J!NextRunPasses, J!Rebalance, J!Enable, J!Disable, J!RunNow, J!Delete
  <1>14. CASE J!GetDueRecurringJobs
    BY <1>1, <1>14 DEF J!GetDueRecurringJobs, J!Top
  <1>15. CASE J!BatchSetNextRuns
    BY <1>1, <1>15 DEF J!BatchSetNextRuns, J!Top
  <1>16. CASE J!NothingAdmitted
    BY <1>1, <1>16 DEF J!NothingAdmitted, J!Top
  <1>17. QED
    BY <1>2, <1>4, <1>6, <1>7, <1>8, <1>9, <1>11, <1>12, <1>13, <1>14, <1>15, <1>16
       DEF J!RecurringNext, J!PollerStep, J!RunnerStep, J!OutsideStep

\* Rows are deleted, never made; one that is deleted is disabled for good.
HandRows == \A s \in RecurringJobs : ~recurring[s].present => ~recurring[s].enabled

\* A schedule that was deleted does not come back, and max_runs counts down only.
LEMMA RowsKept ==
  ASSUME J!RecurringAssumption, TypeInv, HandRows, J!RecurringNext
  PROVE  HandRows' /\ \A s \in RecurringJobs : recurring'[s].present => recurring[s].present
  <1> DEFINE Goal == HandRows' /\ \A s \in RecurringJobs : recurring'[s].present
               => recurring[s].present
  <1>a. RowsTyped
    BY DEF TypeInv, RecurringTyped
  <1>1. ASSUME UNCHANGED recurring PROVE Goal
    BY <1>1 DEF HandRows
  <1>2. ASSUME NEW s \in RecurringJobs,
               \/ recurring' = [recurring EXCEPT ![s].enabled = FALSE]
               \/ \E n : recurring' = [recurring EXCEPT ![s].left = n]
               \/ \E b : recurring' = [recurring EXCEPT ![s].due = b]
               \/ recurring[s].present /\ recurring' = [recurring EXCEPT ![s].enabled = TRUE]
        PROVE  Goal
    BY <1>a, <1>2 DEF HandRows, RowsTyped
  <1>3. ASSUME NEW s \in RecurringJobs, J!Delete(s) PROVE Goal
    BY <1>a, <1>3 DEF J!Delete, HandRows, RowsTyped
  <1>4. ASSUME J!BatchSetNextRuns PROVE Goal
    BY <1>a, <1>4 DEF J!BatchSetNextRuns, HandRows, RowsTyped
  <1> SUFFICES Goal
    OBVIOUS
  <1> HIDE DEF Goal
  <1>5. ASSUME NEW w \in PoolThreads, J!CheckSaysDone(w) \/ J!CountDown(w) \/ J!UpdateNextRun(w)
        PROVE  Goal
    <2>1. J!OwnerOf(w) \in RecurringJobs
      BY <1>5, HeldJobs DEF J!CheckSaysDone, J!CountDown, J!UpdateNextRun
    <2>2. QED
      BY <1>2, <1>5, <2>1 DEF J!CheckSaysDone, J!CountDown, J!UpdateNextRun
  <1>6. ASSUME NEW s \in RecurringJobs,
               J!NextRunPasses(s) \/ J!Rebalance(s) \/ J!Enable(s) \/ J!Disable(s)
        PROVE  Goal
    BY <1>2, <1>6 DEF J!NextRunPasses, J!Rebalance, J!Enable, J!Disable
  <1>7. CASE J!RunnerStep
    BY <1>1, <1>5, <1>7 DEF J!RunnerStep, J!Succeeds, J!Fails, J!TimesOut, J!CheckSaysSkip,
       J!CheckCloses, J!ReadMaxRuns
  <1>8. CASE J!OutsideStep
    BY <1>1, <1>3, <1>6, <1>8 DEF J!OutsideStep, J!RunNow, J!CancelInstance,
       J!DeferInstance, J!ResumeInstance, J!BackoffElapses
  <1>9. CASE J!PollerStep
    BY <1>1, <1>4, <1>9 DEF J!PollerStep, J!GetDueRecurringJobs, J!NothingAdmitted,
       J!Suspend, J!Promote, J!PromoteRaises, J!SkipDuplicate, J!ReadPending,
       J!StartInstance
  <1>10. CASE J!DaemonCrashes
    BY <1>1, <1>10 DEF J!DaemonCrashes
  <1>11. QED
    BY <1>7, <1>8, <1>9, <1>10 DEF J!RecurringNext

\* No step leaves a schedule with two promoted jobs that wait or run.
LEMMA PromotedApartKept ==
  ASSUME J!RecurringAssumption, TypeInv, Working, HandRows, PromotedApart, J!RecurringNext
  PROVE  PromotedApart'
  <1>a. JobsTyped /\ PromoterTyped /\ Owned /\ Stay
    BY JobsStay DEF TypeInv, RecurringTyped
  <1> SUFFICES ASSUME NEW i \in Instances, NEW k \in Instances, i # k,
                      instance'[i].owner = instance'[k].owner, Alive(i)', Alive(k)'
               PROVE  ~recurring'[instance'[i].owner].present
    BY DEF PromotedApart
  <1>1. ASSUME NEW m \in Instances, Alive(m)
        PROVE  instance'[m].owner = instance[m].owner /\ instance[m].owner \in RecurringJobs
    BY <1>a, <1>1 DEF Alive, Owned, Stay
  <1>2. CASE Alive(i) /\ Alive(k)
    BY <1>1, <1>2, RowsKept DEF PromotedApart
  <1>3. ASSUME NEW m \in Instances, ~Alive(m), Alive(m)'
        PROVE  \A n \in Instances : Alive(n) => instance'[n].owner # instance'[m].owner
    <2>1. PICK s \in RecurringJobs : J!Promote(s) /\ instance'[m].owner = s
      BY <1>3, Revived
    <2>2. \A n \in Instances : instance[n].owner = s
            => instance[n].status \notin J!Waiting \union {"running"}
      BY <2>1 DEF J!Promote, J!HasPendingOrRunning, J!InstancesOf
    <2>3. promoter.pc # "admit"
      BY <2>1 DEF J!Promote
    <2>4. QED
      BY <1>1, <2>1, <2>2, <2>3 DEF Alive
  <1>4. CASE ~Alive(i) /\ ~Alive(k)
    <2>1. PICK s \in RecurringJobs : J!Promote(s) /\ instance'[i].owner = s
      BY <1>4, Revived
    <2>2. PICK m \in Instances :
            instance' = [instance EXCEPT ![m] =
                           [owner |-> s, promoted |-> TRUE, status |-> "pending",
                                                 deferred |-> FALSE]]
      BY <2>1 DEF J!Promote, J!Submit
    <2>3. \A n \in Instances : n # m => instance'[n] = instance[n]
      BY <1>a, <2>2 DEF JobsTyped
    <2>4. promoter'.pc # "admit"
      BY <1>a, <2>1 DEF J!Promote, PromoterTyped
    <2>5. i = m /\ k = m
      BY <1>4, <2>3, <2>4 DEF Alive
    <2>6. QED
      BY <2>5
  <1>5. QED
    BY <1>2, <1>3, <1>4

-----------------------------------------------------------------------------
\* What may still be counted for a schedule whose runs did not race: one job at most is
\* waiting, running, deferred or in a worker's hands, and what is done and what is left
\* are together what the user may expect, one more while a success is being counted.
Unended(i) == instance[i].status \in Open \/ J!InHands(i)
OneUnended(s) ==
    \A i, k \in Instances :
        instance[i].owner = s /\ instance[k].owner = s /\ Unended(i) /\ Unended(k) => i = k

Owing(s) ==
    \/ recurring[s].enabled
    \/ \E i \in Instances : instance[i].owner = s /\ instance[i].status \in Open
Counting(s) == \E w \in PoolThreads : runner[w].at \in {"read", "count"} /\ J!OwnerOf(w) = s
May(s) == MaxRuns + tally[s].extra
Reach(s) == tally[s].done + recurring[s].left

Counted(s) ==
    /\ Owing(s) /\ ~Counting(s) => Reach(s) <= May(s)
    /\ Owing(s) \/ recurring[s].present => Reach(s) <= May(s) + 1
    /\ tally[s].done <= May(s)
    /\ recurring[s].present =>
         \A w \in PoolThreads :
             runner[w].at = "count" /\ J!OwnerOf(w) = s => runner[w].left = recurring[s].left

Fair(s) == ~tally[s].raced => OneUnended(s) /\ Counted(s)
FairAll == \A s \in RecurringJobs : Fair(s)

\* A job that is open only now was submitted just now, or the runs of its owner raced.
LEMMA Reopened ==
  ASSUME J!RecurringAssumption, TypeInv, J!RecurringNext, NEW s \in RecurringJobs,
         ~tally'[s].raced, NEW i \in Instances, instance'[i].owner = s,
         Unended(i)', ~Unended(i)
  PROVE  /\ instance[i].status = "absent" /\ instance'[i].status = "pending" /\ ~J!Unfinished(s)
         /\ \A k \in Instances : k # i => instance'[k] = instance[k]
         /\ UNCHANGED <<runner, recurring>>
         /\ \/ recurring[s].enabled /\ tally'[s].extra = tally[s].extra
            \/ recurring[s].present /\ tally'[s].extra = tally[s].extra + 1
         /\ tally'[s].done = tally[s].done
  <1> DEFINE Fresh ==
         /\ instance[i].status = "absent" /\ instance'[i].status = "pending" /\ ~J!Unfinished(s)
         /\ \A k \in Instances : k # i => instance'[k] = instance[k]
         /\ UNCHANGED <<runner, recurring>>
         /\ \/ recurring[s].enabled /\ tally'[s].extra = tally[s].extra
            \/ recurring[s].present /\ tally'[s].extra = tally[s].extra + 1
         /\ tally'[s].done = tally[s].done
  <1> SUFFICES Fresh
    OBVIOUS
  <1>a. JobsTyped /\ TallyTyped /\ RunnersTyped /\ RowsTyped /\ Held /\ Owned /\ Stay
    BY JobsStay DEF TypeInv, RecurringTyped
  <1>1. ASSUME \/ instance'[i].status = instance[i].status
               \/ instance'[i].status \notin Open
               \/ instance[i].status \in Open,
               \A w \in PoolThreads : runner'[w].job = i => runner[w].job = i
        PROVE  FALSE
    BY <1>1 DEF Unended, J!InHands
  <1>2. ASSUME NEW b \in BOOLEAN, NEW r \in RecurringJobs, J!Submit(r, b),
               UNCHANGED <<runner, recurring>>
        PROVE  /\ r = s /\ instance[i].status = "absent" /\ instance'[i].status = "pending"
               /\ \A k \in Instances : k # i => instance'[k] = instance[k]
    <2>1. PICK k \in Instances : /\ instance[k].status = "absent"
                                 /\ instance' = [instance EXCEPT ![k] =
                                      [owner |-> r, promoted |-> b, status |-> "pending",
                                       deferred |-> FALSE]]
      BY <1>2 DEF J!Submit
    <2>2. i = k
      BY <1>a, <1>1, <1>2, <2>1 DEF JobsTyped
    <2>3. QED
      BY <1>a, <2>1, <2>2 DEF JobsTyped
  <1>3. ASSUME NEW r \in RecurringJobs, J!Promote(r) PROVE Fresh
    <2>1. /\ r = s /\ instance[i].status = "absent" /\ instance'[i].status = "pending"
          /\ \A k \in Instances : k # i => instance'[k] = instance[k]
      BY <1>2, <1>3 DEF J!Promote
    <2>2. J!Raced(s, J!Unfinished(s) \/ ~recurring[s].enabled) /\ UNCHANGED <<runner, recurring>>
      BY <1>3, <2>1 DEF J!Promote
    <2>3. /\ tally'[s].raced = (tally[s].raced \/ J!Unfinished(s) \/ ~recurring[s].enabled)
          /\ tally'[s].done = tally[s].done /\ tally'[s].extra = tally[s].extra
      BY <1>a, <2>2 DEF J!Raced, TallyTyped
    <2>4. QED
      BY <2>1, <2>2, <2>3
  <1>4. ASSUME NEW r \in RecurringJobs, J!RunNow(r) PROVE Fresh
    <2>1. /\ r = s /\ instance[i].status = "absent" /\ instance'[i].status = "pending"
          /\ \A k \in Instances : k # i => instance'[k] = instance[k]
      BY <1>2, <1>4 DEF J!RunNow
    <2>2. /\ tally' = [tally EXCEPT ![s].extra = @ + 1, ![s].raced = @ \/ J!Unfinished(s)]
          /\ UNCHANGED <<runner, recurring>> /\ recurring[s].present
      BY <1>4, <2>1 DEF J!RunNow
    <2>3. /\ tally'[s].raced = (tally[s].raced \/ J!Unfinished(s))
          /\ tally'[s].done = tally[s].done /\ tally'[s].extra = tally[s].extra + 1
      BY <1>a, <2>2 DEF TallyTyped
    <2>4. QED
      BY <2>1, <2>2, <2>3
  <1> HIDE DEF Fresh
  <1>5. ASSUME NEW w \in PoolThreads, J!StartInstance(w) PROVE FALSE
    <2>1. promoter.job \in Instances /\ instance[promoter.job].status # "absent"
      BY <1>a, <1>5 DEF J!StartInstance, Held
    <2>2. /\ \A k \in Instances : k # promoter.job => instance'[k] = instance[k]
          /\ \A v \in PoolThreads : v # w => runner'[v] = runner[v]
          /\ runner'[w].job = promoter.job
      BY <1>a, <1>5, <2>1 DEF J!StartInstance, JobsTyped, RunnersTyped
    <2>3. i = promoter.job
      BY <1>1, <2>2
    <2>4. instance[i].owner = s
      BY <1>a, <2>1, <2>3 DEF Stay
    <2>5. tally'[s].raced = (tally[s].raced \/ instance[i].status # "pending")
      BY <1>a, <1>5, <2>3, <2>4 DEF J!StartInstance, J!Raced, TallyTyped
    <2>6. QED
      BY <2>3, <2>5 DEF Unended, Open, J!Waiting
  <1>6. ASSUME NEW w \in PoolThreads, runner[w].at # "idle", NEW e, e \in {"over", "retry"},
               J!Ends(w, e),
               \A v \in PoolThreads : runner'[v].job = i => runner[v].job = i
        PROVE  FALSE
    <2>1. runner[w].job \in Instances /\ Unended(runner[w].job)
      BY <1>6, HeldJobs DEF Unended, J!InHands
    <2>2. i # runner[w].job
      BY <2>1
    <2>3. instance'[i] = instance[i]
      BY <1>a, <1>6, <2>1, <2>2 DEF J!Ends, JobsTyped
    <2>4. QED
      BY <1>1, <1>6, <2>3
  <1>7. ASSUME NEW w \in PoolThreads, NEW e, J!GoesTo(w, e) \/ J!Leaves(w)
        PROVE  \A v \in PoolThreads : runner'[v].job = i => runner[v].job = i
    <2>1. i # NoInstance
      BY DEF J!RecurringAssumption
    <2>2. QED
      BY <1>a, <1>7, <2>1 DEF J!GoesTo, J!Leaves, J!FreeThread, RunnersTyped
  <1>8. ASSUME NEW w \in PoolThreads,
               J!Succeeds(w) \/ J!Fails(w) \/ J!TimesOut(w) \/ J!CheckSaysSkip(w)
                 \/ J!CheckCloses(w)
        PROVE  FALSE
    BY <1>6, <1>7, <1>8 DEF J!Succeeds, J!Fails, J!TimesOut, J!CheckSaysSkip, J!CheckCloses
  <1>9. ASSUME NEW w \in PoolThreads, J!CheckSaysDone(w) \/ J!CountDown(w) \/ J!UpdateNextRun(w)
        PROVE  FALSE
    BY <1>1, <1>7, <1>9 DEF J!CheckSaysDone, J!CountDown, J!UpdateNextRun
  <1>10. ASSUME NEW w \in PoolThreads, J!ReadMaxRuns(w) PROVE FALSE
    <2>1. \A v \in PoolThreads : runner'[v].job = runner[v].job
      BY <1>a, <1>10 DEF J!ReadMaxRuns, RunnersTyped
    <2>2. QED
      BY <1>1, <1>10, <2>1 DEF J!ReadMaxRuns
  <1>11. ASSUME NEW k \in Instances,
               J!CancelInstance(k) \/ J!DeferInstance(k) \/ J!ResumeInstance(k)
                 \/ J!BackoffElapses(k)
        PROVE  FALSE
    <2>1. UNCHANGED runner /\ instance[k].status \in Open
          /\ \A m \in Instances : m # k => instance'[m] = instance[m]
      BY <1>a, <1>11 DEF J!CancelInstance, J!DeferInstance, J!ResumeInstance,
         J!BackoffElapses, J!Waiting, Open, JobsTyped
    <2>2. QED
      BY <1>1, <2>1
  <1>12. CASE J!DaemonCrashes
    <2>1. \A w \in PoolThreads : runner'[w].job # i
      BY <1>12 DEF J!DaemonCrashes, J!FreeThread, J!RecurringAssumption
    <2>2. instance'[i].status = IF instance[i].status =
            "running" THEN "pending" ELSE instance[i].status
      BY <1>a, <1>12 DEF J!DaemonCrashes, JobsTyped
    <2>3. QED
      BY <1>1, <2>1, <2>2 DEF Open
  <1>13. CASE UNCHANGED <<instance, runner>>
    BY <1>1, <1>13
  <1>14. CASE J!PollerStep
    BY <1>3, <1>5, <1>13, <1>14 DEF J!PollerStep, J!GetDueRecurringJobs,
       J!BatchSetNextRuns, J!NothingAdmitted, J!Suspend, J!PromoteRaises, J!SkipDuplicate,
       J!ReadPending
  <1>15. CASE J!OutsideStep
    BY <1>4, <1>11, <1>13, <1>15
       DEF J!OutsideStep, J!NextRunPasses, J!Rebalance, J!Enable, J!Disable, J!Delete
  <1>16. QED
    BY <1>8, <1>9, <1>10, <1>12, <1>14, <1>15 DEF J!RecurringNext, J!RunnerStep

\* done and extra only grow; raced stays.
TallyStay == \A s \in RecurringJobs : tally[s].raced => tally'[s].raced

\* What was counted of a schedule, and that it raced, is not forgotten.
LEMMA TallyStays ==
  ASSUME J!RecurringAssumption, TypeInv, J!RecurringNext
  PROVE  TallyStay
  <1>a. TallyTyped
    BY DEF TypeInv, RecurringTyped
  <1>1. CASE UNCHANGED tally
    BY <1>1 DEF TallyStay
  <1>2. ASSUME NEW r, NEW c, J!Raced(r, c) PROVE TallyStay
    BY <1>a, <1>2 DEF J!Raced, TallyStay, TallyTyped
  <1>3. ASSUME NEW r \in RecurringJobs, J!Enable(r) \/ J!RunNow(r) PROVE TallyStay
    BY <1>a, <1>3 DEF J!Enable, J!RunNow, TallyStay, TallyTyped
  <1>4. ASSUME NEW w \in PoolThreads, J!Succeeds(w) PROVE TallyStay
    BY <1>a, <1>4 DEF J!Succeeds, TallyStay, TallyTyped
  <1>5. CASE J!DaemonCrashes
    BY <1>a, <1>5 DEF J!DaemonCrashes, TallyStay, TallyTyped
  <1>6. CASE J!PollerStep
    BY <1>1, <1>2, <1>6 DEF J!PollerStep, J!GetDueRecurringJobs, J!BatchSetNextRuns,
       J!NothingAdmitted, J!Suspend, J!Promote, J!PromoteRaises, J!SkipDuplicate,
       J!ReadPending, J!StartInstance
  <1>7. CASE J!RunnerStep
    BY <1>1, <1>4, <1>7 DEF J!RunnerStep, J!Fails, J!TimesOut, J!CheckSaysSkip,
       J!CheckCloses, J!CheckSaysDone, J!ReadMaxRuns, J!CountDown, J!UpdateNextRun
  <1>8. CASE J!OutsideStep
    BY <1>1, <1>3, <1>8 DEF J!OutsideStep, J!NextRunPasses, J!Rebalance, J!Disable,
       J!Delete, J!CancelInstance, J!DeferInstance, J!ResumeInstance, J!BackoffElapses
  <1>9. QED
    BY <1>5, <1>6, <1>7, <1>8 DEF J!RecurringNext

\* No step leaves a schedule that never raced with two jobs that have not ended.
LEMMA OneUnendedKept ==
  ASSUME J!RecurringAssumption, TypeInv, J!RecurringNext, NEW s \in RecurringJobs,
         OneUnended(s), ~tally'[s].raced
  PROVE  OneUnended(s)'
  <1>a. Owned /\ Stay
    BY JobsStay DEF TypeInv
  <1>1. ASSUME NEW i \in Instances, instance'[i].owner = s, Unended(i)', Unended(i)
        PROVE  instance[i].owner = s
    <2>1. instance[i].status # "absent"
      <3>1. CASE instance[i].status \in Open
        BY <3>1 DEF Open, J!Waiting
      <3>2. CASE J!InHands(i)
        <4>1. PICK w \in PoolThreads : runner[w].job = i
          BY <3>2 DEF J!InHands
        <4>2. runner[w].at # "idle"
          BY <4>1 DEF TypeInv, Held, J!RecurringAssumption
        <4>3. QED
          BY <4>1, <4>2, HeldJobs
      <3>3. QED
        BY <1>1, <3>1, <3>2 DEF Unended
    <2>2. QED
      BY <1>1, <1>a, <2>1 DEF Stay
  <1>2. ASSUME NEW i \in Instances, NEW k \in Instances, i # k, ~Unended(i), Unended(i)',
               Unended(k)',
               instance'[i].owner = s, instance'[k].owner = s
        PROVE  FALSE
    <2>1. /\ ~J!Unfinished(s) /\ instance'[k] = instance[k] /\ UNCHANGED runner
      BY <1>2, Reopened
    <2>2. instance[k].owner = s /\ Unended(k)
      BY <1>2, <2>1 DEF Unended, J!InHands
    <2>3. QED
      BY <2>1, <2>2 DEF J!Unfinished, J!InstancesOf, Unended, Open
  <1>3. QED
    BY <1>1, <1>2 DEF OneUnended

\* A step after which no more is owed, nothing is counted and nothing is done keeps the count.
LEMMA Quiet ==
  ASSUME TypeInv, NEW s \in RecurringJobs, Counted(s),
         tally'[s].done = tally[s].done, tally'[s].extra = tally[s].extra,
         recurring'[s].left = recurring[s].left,
         recurring'[s].present => recurring[s].present,
         Owing(s)' => Owing(s), ~Counting(s)' => ~Counting(s),
         \A w \in PoolThreads : runner'[w].at = "count" /\ J!OwnerOf(w)' = s =>
            runner[w].at = "count" /\ J!OwnerOf(w) = s /\ runner'[w].left = runner[w].left
  PROVE  Counted(s)'
  <1>1. Reach(s)' = Reach(s) /\ May(s)' = May(s)
    BY DEF Reach, May
  <1>2. QED
    BY <1>1 DEF Counted

\* The counters of a schedule are naturals, and what is left of max_runs is not 0.
LEMMA CountedTypes ==
  ASSUME J!RecurringAssumption, TypeInv, NEW s \in RecurringJobs
  PROVE  /\ tally[s].done \in Nat /\ tally[s].extra \in Nat
         /\ recurring[s].left \in Nat /\ recurring[s].left >= 1 /\ MaxRuns \in Nat
  BY DEF J!RecurringAssumption, TypeInv, RecurringTyped, RowsTyped, TallyTyped

\* A job in the hands of a worker has not ended.
LEMMA InHandsUnended ==
  ASSUME TypeInv, NEW w \in PoolThreads, runner[w].at # "idle"
  PROVE  runner[w].job \in Instances /\ Unended(runner[w].job)
  BY HeldJobs DEF Unended, J!InHands

\* While one is counted nothing else of the schedule is open or counted.
LEMMA CountedAlone ==
  ASSUME TypeInv, Working, NEW s \in RecurringJobs, OneUnended(s),
         NEW w \in PoolThreads, runner[w].at \in {"read", "count"}, J!OwnerOf(w) = s
  PROVE  /\ \A i \in Instances : instance[i].owner = s => instance[i].status \notin Open
         /\ \A v \in PoolThreads : runner[v].at \in {"run", "close", "read", "count"}
            /\ J!OwnerOf(v) = s => v = w
  <1>1. /\ runner[w].job \in Instances /\ Unended(runner[w].job)
        /\ instance[runner[w].job].owner = s /\ instance[runner[w].job].status = "over"
    BY InHandsUnended DEF J!OwnerOf, Working
  <1>2. ASSUME NEW i \in Instances, instance[i].owner = s, instance[i].status \in Open
        PROVE  FALSE
    BY <1>1, <1>2 DEF OneUnended, Unended, Open, J!Waiting
  <1>3. ASSUME NEW v \in PoolThreads, runner[v].at \in {"run", "close", "read", "count"},
               J!OwnerOf(v) = s
        PROVE  v = w
    <2>1. runner[v].job \in Instances /\ Unended(runner[v].job)
          /\ instance[runner[v].job].owner = s
      BY <1>3, InHandsUnended DEF J!OwnerOf
    <2>2. runner[v].job = runner[w].job
      BY <1>1, <2>1 DEF OneUnended
    <2>3. QED
      BY <1>3, <2>2 DEF Working, Busy
  <1>4. QED
    BY <1>2, <1>3

\* No step makes a schedule that never raced run more often than max_runs, or count a run twice.
LEMMA CountedKept ==
  ASSUME J!RecurringAssumption, TypeInv, Working, HandRows, J!RecurringNext,
         NEW s \in RecurringJobs,
         OneUnended(s), Counted(s), ~tally'[s].raced
  PROVE  Counted(s)'
  <1>a. JobsTyped /\ TallyTyped /\ RunnersTyped /\ RowsTyped /\ PromoterTyped /\ Held /\ Owned
        /\ Stay
    BY JobsStay DEF TypeInv, RecurringTyped
  <1>b. /\ tally[s].done \in Nat /\ tally[s].extra \in Nat
        /\ recurring[s].left \in Nat /\ recurring[s].left >= 1 /\ MaxRuns \in Nat
    BY CountedTypes
  <1>1. ASSUME UNCHANGED <<instance, runner, tally>>,
               /\ recurring'[s].left = recurring[s].left
               /\ recurring'[s].present => recurring[s].present
               /\ recurring'[s].enabled => recurring[s].enabled
        PROVE  Counted(s)'
    BY <1>1, Quiet DEF Owing, Counting, J!OwnerOf
  <1>2. CASE UNCHANGED <<instance, runner, tally, recurring>>
    BY <1>1, <1>2
  <1>3. CASE J!BatchSetNextRuns
    BY <1>a, <1>1, <1>3 DEF J!BatchSetNextRuns, RowsTyped
  <1>4. ASSUME NEW r \in RecurringJobs, J!NextRunPasses(r) \/ J!Rebalance(r) \/ J!Disable(r)
        PROVE  Counted(s)'
    <2>1. /\ recurring'[s].left = recurring[s].left
             /\ recurring'[s].present = recurring[s].present
          /\ recurring'[s].enabled => recurring[s].enabled
      BY <1>a, <1>4 DEF J!NextRunPasses, J!Rebalance, J!Disable, RowsTyped
    <2>2. QED
      BY <1>1, <1>4, <2>1 DEF J!NextRunPasses, J!Rebalance, J!Disable
  <1>5. ASSUME NEW r \in RecurringJobs, J!Delete(r) PROVE Counted(s)'
    <2>1. CASE r # s
      <3>1. recurring'[s] = recurring[s]
        BY <1>a, <1>5, <2>1 DEF J!Delete, RowsTyped
      <3>2. QED
        BY <1>1, <1>5, <3>1 DEF J!Delete
    <2>2. CASE r = s
      <3>1. /\ ~recurring'[s].present /\ ~recurring'[s].enabled /\ recurring'[s].left = 1
            /\ UNCHANGED <<instance, runner, tally>> /\ recurring[s].present
        BY <1>a, <1>5, <2>2 DEF J!Delete, RowsTyped
      <3>2. (Owing(s)' => Owing(s)) /\ Counting(s)' = Counting(s)
        BY <3>1 DEF Owing, Counting, J!OwnerOf
      <3>3. Reach(s)' <= Reach(s) /\ May(s)' = May(s) /\ Reach(s)' \in Nat /\ Reach(s) \in Nat
            /\ May(s) \in Nat
        BY <1>b, <3>1 DEF Reach, May
      <3>4. QED
        BY <3>1, <3>2, <3>3 DEF Counted
    <2>3. QED
      BY <2>1, <2>2
  <1>6. ASSUME NEW r \in RecurringJobs, J!Enable(r) PROVE Counted(s)'
    <2>1. CASE r # s
      <3>1. recurring'[s] = recurring[s] /\ tally'[s] = tally[s] /\ UNCHANGED <<instance, runner>>
        BY <1>a, <1>6, <2>1 DEF J!Enable, RowsTyped, TallyTyped
      <3>2. QED
        BY <3>1, Quiet DEF Owing, Counting, J!OwnerOf
    <2>2. CASE r = s
      <3>1. /\ recurring[s].present /\ recurring'[s].left = recurring[s].left
            /\ UNCHANGED <<instance, runner>>
            /\ tally'[s].done = tally[s].done /\ tally'[s].extra = tally[s].extra + 1
        BY <1>a, <1>6, <2>2 DEF J!Enable, RowsTyped, TallyTyped
      <3>2. Reach(s)' = Reach(s) /\ May(s)' = May(s) + 1 /\ Reach(s) \in Nat /\ May(s) \in Nat
        BY <1>b, <3>1 DEF Reach, May
      <3>3. QED
        BY <1>b, <3>1, <3>2 DEF Counted, J!OwnerOf
    <2>3. QED
      BY <2>1, <2>2
  <1>7. ASSUME NEW i \in Instances, instance'[i].owner = s, Unended(i)', ~Unended(i)
        PROVE  Counted(s)'
    <2>1. /\ instance[i].status = "absent" /\ instance'[i].status = "pending" /\ ~J!Unfinished(s)
          /\ \A k \in Instances : k # i => instance'[k] = instance[k]
          /\ UNCHANGED <<runner, recurring>>
          /\ \/ recurring[s].enabled /\ tally'[s].extra = tally[s].extra
             \/ recurring[s].present /\ tally'[s].extra = tally[s].extra + 1
          /\ tally'[s].done = tally[s].done
      BY <1>7, Reopened
    <2>2. \A w \in PoolThreads : runner[w].at # "idle" => J!OwnerOf(w) # s
      BY <2>1, InHandsUnended
         DEF J!Unfinished, J!InstancesOf, Unended, J!OwnerOf, Open, J!InHands
    <2>3. \A w \in PoolThreads : runner[w].at # "idle" => J!OwnerOf(w)' = J!OwnerOf(w)
      BY <1>a, <2>1, HeldJobs DEF J!OwnerOf, Stay
    <2>4. ~Counting(s) /\ ~Counting(s)'
      BY <2>1, <2>2, <2>3 DEF Counting
    <2>5. Reach(s)' = Reach(s) /\ Reach(s) \in Nat /\ May(s) \in Nat
          /\ May(s)' \in {May(s), May(s) + 1}
      BY <1>b, <2>1 DEF Reach, May
    <2>6. Reach(s)' <= May(s)'
      <3>1. CASE recurring[s].enabled /\ tally'[s].extra = tally[s].extra
        BY <2>4, <2>5, <3>1 DEF Counted, Owing, May
      <3>2. CASE recurring[s].present /\ tally'[s].extra = tally[s].extra + 1
        <4>1. May(s)' = May(s) + 1
          BY <1>b, <3>2 DEF May
        <4>2. QED
          BY <2>4, <2>5, <3>2, <4>1 DEF Counted
      <3>3. QED
        BY <2>1, <3>1, <3>2
    <2>7. tally'[s].done <= May(s)'
      BY <1>b, <2>1, <2>5 DEF Counted, May
    <2>8. QED
      BY <2>1, <2>2, <2>3, <2>5, <2>6, <2>7 DEF Counted
  <1>8. ASSUME NEW r \in RecurringJobs, J!Promote(r) \/ J!RunNow(r) PROVE Counted(s)'
    <2>1. PICK k \in Instances, b \in BOOLEAN :
            /\ instance[k].status = "absent"
            /\ instance' =
                 [instance EXCEPT ![k] = [owner |-> r, promoted |-> b, status |-> "pending",
                                                    deferred |-> FALSE]]
      BY <1>8 DEF J!Promote, J!RunNow, J!Submit
    <2>2. /\ instance'[k].owner = r /\ instance'[k].status = "pending"
          /\ \A i \in Instances : i # k => instance'[i] = instance[i]
          /\ UNCHANGED <<runner, recurring>>
      BY <1>a, <1>8, <2>1 DEF JobsTyped, J!Promote, J!RunNow
    <2>3. \A w \in PoolThreads : runner[w].job # k
      BY <1>a, <2>1 DEF Held, J!RecurringAssumption
    <2>4. CASE r = s
      <3>1. ~Unended(k) /\ Unended(k)'
        BY <2>1, <2>2, <2>3 DEF Unended, J!InHands, Open, J!Waiting
      <3>2. QED
        BY <1>7, <2>2, <2>4, <3>1
    <2>5. CASE r # s
      <3>1. tally'[s] = tally[s]
        BY <1>a, <1>8, <2>5 DEF J!Promote, J!RunNow, J!Raced, TallyTyped
      <3>2. (Owing(s)' => Owing(s)) 
        BY <2>2, <2>5 DEF Owing
      <3>3. \A w \in PoolThreads : runner[w].at # "idle" => J!OwnerOf(w)' = J!OwnerOf(w)
        BY <2>2, <2>3, HeldJobs DEF J!OwnerOf
      <3>4. QED
        BY <2>2, <3>1, <3>2, <3>3, Quiet DEF Counting
    <2>6. QED
      BY <2>4, <2>5
  <1>9. ASSUME NEW w \in PoolThreads, J!StartInstance(w) PROVE Counted(s)'
    <2>1. /\ promoter.job \in Instances /\ runner[w].at = "idle" /\ runner'[w].at = "run"
          /\ \A v \in PoolThreads : v # w => runner'[v] = runner[v]
          /\ instance'[promoter.job].status = "running"
          /\ instance'[promoter.job].owner = instance[promoter.job].owner
          /\ \A i \in Instances : i # promoter.job => instance'[i] = instance[i]
          /\ recurring' = recurring
      BY <1>a, <1>9 DEF J!StartInstance, Held, J!FreeThread, RunnersTyped, JobsTyped
    <2>2. \A v \in PoolThreads : runner[v].at # "idle" => v # w /\ J!OwnerOf(v)' = J!OwnerOf(v)
      BY <2>1, HeldJobs DEF J!OwnerOf
    <2>3. tally'[s].done = tally[s].done /\ tally'[s].extra = tally[s].extra
      BY <1>a, <1>9 DEF J!StartInstance, J!Raced, TallyTyped
    <2>4. instance[promoter.job].owner = s => instance[promoter.job].status = "pending"
      BY <1>a, <1>9, <2>1 DEF J!StartInstance, J!Raced, TallyTyped
    <2>5. Owing(s)' => Owing(s)
      BY <2>1, <2>4 DEF Owing, Open, J!Waiting
    <2>6. ~Counting(s)' => ~Counting(s)
      BY <2>1, <2>2 DEF Counting
    <2>7. \A v \in PoolThreads : runner'[v].at = "count" /\ J!OwnerOf(v)' = s =>
            runner[v].at = "count" /\ J!OwnerOf(v) = s /\ runner'[v].left = runner[v].left
      BY <2>1, <2>2
    <2>8. QED
      BY <2>1, <2>3, <2>5, <2>6, <2>7, Quiet
  <1>10. ASSUME NEW w \in PoolThreads, runner[w].at \in {"run", "close"},
                NEW e \in {"retry", "over"}, J!Ends(w, e),
                J!GoesTo(w, "next") \/ J!Leaves(w), UNCHANGED <<tally, recurring>>
         PROVE  Counted(s)'
    <2>1. /\ runner[w].job \in Instances /\ instance[runner[w].job].status = "running"
      BY <1>10, HeldJobs DEF Working
    <2>2. /\ instance'[runner[w].job].owner = instance[runner[w].job].owner
          /\ \A i \in Instances : i # runner[w].job => instance'[i] = instance[i]
      BY <1>a, <1>10, <2>1 DEF J!Ends, JobsTyped
    <2>3. /\ \A v \in PoolThreads : v # w => runner'[v] = runner[v]
          /\ runner'[w].at \in {"next", "idle"}
      BY <1>a, <1>10 DEF J!GoesTo, J!Leaves, RunnersTyped, J!FreeThread
    <2>4. \A v \in PoolThreads : v # w /\ runner[v].at # "idle" => J!OwnerOf(v)' = J!OwnerOf(v)
      BY <2>2, <2>3, HeldJobs DEF J!OwnerOf
    <2>5. Owing(s)' => Owing(s)
      BY <1>10, <2>1, <2>2 DEF Owing, Open
    <2>6. ~Counting(s)' => ~Counting(s)
      BY <1>10, <2>3, <2>4 DEF Counting
    <2>7. \A v \in PoolThreads : runner'[v].at = "count" /\ J!OwnerOf(v)' = s =>
            runner[v].at = "count" /\ J!OwnerOf(v) = s /\ runner'[v].left = runner[v].left
      BY <2>3, <2>4
    <2>8. QED
      BY <1>10, <2>5, <2>6, <2>7, Quiet
  <1>11. ASSUME NEW w \in PoolThreads,
                J!Fails(w) \/ J!TimesOut(w) \/ J!CheckSaysSkip(w) \/ J!CheckCloses(w)
         PROVE  Counted(s)'
    BY <1>10, <1>11 DEF J!Fails, J!TimesOut, J!CheckSaysSkip, J!CheckCloses
  <1>12. ASSUME NEW w \in PoolThreads, J!Succeeds(w) PROVE Counted(s)'
    <2>1. /\ runner[w].job \in Instances /\ instance[runner[w].job].status = "running"
      BY <1>12, HeldJobs DEF Working, J!Succeeds
    <2>2. /\ instance'[runner[w].job].owner = instance[runner[w].job].owner
          /\ instance'[runner[w].job].status = "over"
          /\ \A i \in Instances : i # runner[w].job => instance'[i] = instance[i]
      BY <1>a, <1>12, <2>1 DEF J!Succeeds, J!Ends, JobsTyped
    <2>3. /\ \A v \in PoolThreads : v # w => runner'[v] = runner[v]
          /\ runner'[w].at = "read" /\ runner'[w].job = runner[w].job /\ runner[w].at = "run"
      BY <1>a, <1>12 DEF J!Succeeds, J!GoesTo, RunnersTyped
    <2>4. \A v \in PoolThreads : runner[v].at # "idle" => J!OwnerOf(v)' = J!OwnerOf(v)
      BY <2>2, <2>3, HeldJobs DEF J!OwnerOf
    <2>5. Owing(s)' => Owing(s)
      BY <2>1, <2>2, <1>12 DEF Owing, Open, J!Waiting, J!Succeeds
    <2>6. \A v \in PoolThreads : runner'[v].at = "count" /\ J!OwnerOf(v)' = s =>
            runner[v].at = "count" /\ J!OwnerOf(v) = s /\ runner'[v].left = runner[v].left
      BY <2>3, <2>4
    <2>7. CASE J!OwnerOf(w) # s
      <3>1. tally'[s] = tally[s]
        BY <1>a, <1>12, <2>7 DEF J!Succeeds, TallyTyped
      <3>2. ~Counting(s)' => ~Counting(s)
        BY <2>3, <2>4, <2>7 DEF Counting
      <3>3. QED
        BY <1>12, <2>5, <2>6, <3>1, <3>2, Quiet DEF J!Succeeds
    <2>8. CASE J!OwnerOf(w) = s
      <3>1. tally'[s].done = tally[s].done + 1 /\ tally'[s].extra = tally[s].extra
            /\ recurring' = recurring
        BY <1>a, <1>12, <2>8 DEF J!Succeeds, TallyTyped
      <3>2. ~Counting(s)
        BY <2>1, <2>8, CountedAlone DEF Counting, J!OwnerOf, Open
      <3>3. Owing(s)
        BY <2>1, <2>8 DEF Owing, J!OwnerOf, Open
      <3>4. Counting(s)'
        BY <2>3, <2>4, <2>8 DEF Counting
      <3>5. Reach(s) <= May(s)
        BY <3>2, <3>3 DEF Counted
      <3>6. tally'[s].done <= May(s)' /\ Reach(s)' <= May(s)' + 1
        BY <1>b, <3>1, <3>5 DEF Reach, May
      <3>7. \A v \in PoolThreads : ~(runner'[v].at = "count" /\ J!OwnerOf(v)' = s)
        BY <2>6, <3>2 DEF Counting
      <3>8. QED
        BY <3>4, <3>6, <3>7 DEF Counted
    <2>9. QED
      BY <2>7, <2>8
  <1>13. ASSUME NEW w \in PoolThreads, J!CheckSaysDone(w) \/ J!UpdateNextRun(w) PROVE Counted(s)'
    <2>1. J!OwnerOf(w) \in RecurringJobs /\ UNCHANGED <<instance, tally>>
      BY <1>13, HeldJobs DEF J!CheckSaysDone, J!UpdateNextRun
    <2>2. /\ recurring'[s].left = recurring[s].left
             /\ recurring'[s].present = recurring[s].present
          /\ recurring'[s].enabled => recurring[s].enabled
      BY <1>a, <1>13, <2>1 DEF J!CheckSaysDone, J!UpdateNextRun, RowsTyped
    <2>3. /\ \A v \in PoolThreads : v # w => runner'[v] = runner[v]
          /\ runner'[w].at \in {"close", "idle"} /\ runner[w].at \in {"run", "next"}
      BY <1>a, <1>13 DEF J!CheckSaysDone, J!UpdateNextRun, J!GoesTo, J!Leaves,
         RunnersTyped, J!FreeThread
    <2>4. QED
      BY <2>1, <2>2, <2>3, Quiet DEF Owing, Counting, J!OwnerOf
  <1>14. ASSUME NEW w \in PoolThreads, J!ReadMaxRuns(w) PROVE Counted(s)'
    <2>1. /\ \A v \in PoolThreads : v # w => runner'[v] = runner[v]
          /\ runner'[w].job = runner[w].job /\ runner[w].at = "read"
          /\ runner'[w].left = recurring[J!OwnerOf(w)].left
          /\ runner'[w].at = IF recurring[J!OwnerOf(w)].present THEN "count" ELSE "next"
          /\ UNCHANGED <<recurring, instance, tally>>
      BY <1>a, <1>14 DEF J!ReadMaxRuns, RunnersTyped
    <2>2. Reach(s)' = Reach(s) /\ May(s)' = May(s) /\ Owing(s)' = Owing(s)
      BY <2>1 DEF Reach, May, Owing
    <2>3. CASE J!OwnerOf(w) # s
      BY <2>1, <2>3, Quiet DEF Owing, Counting, J!OwnerOf
    <2>4. CASE J!OwnerOf(w) = s /\ recurring[s].present
      <3>1. Counting(s)' = Counting(s)
        BY <2>1, <2>4 DEF Counting, J!OwnerOf
      <3>2. \A v \in PoolThreads : runner'[v].at = "count" /\ J!OwnerOf(v)' = s
              => runner'[v].left = recurring[s].left
        BY <2>1, <2>4 DEF J!OwnerOf, Counted
      <3>3. QED
        BY <2>1, <2>2, <3>1, <3>2 DEF Counted
    <2>5. CASE J!OwnerOf(w) = s /\ ~recurring[s].present
      <3>1. ~Owing(s)
        BY <2>1, <2>5, CountedAlone DEF HandRows, Owing
      <3>2. QED
        BY <2>1, <2>2, <2>5, <3>1 DEF Counted
    <2>6. QED
      BY <2>3, <2>4, <2>5
  <1>15. ASSUME NEW w \in PoolThreads, J!CountDown(w) PROVE Counted(s)'
    <2>1. /\ \A v \in PoolThreads : v # w => runner'[v] = runner[v]
          /\ runner'[w].job = runner[w].job /\ runner'[w].at = "next" /\ runner[w].at = "count"
          /\ UNCHANGED <<instance, tally>>
      BY <1>a, <1>15 DEF J!CountDown, J!GoesTo, RunnersTyped
    <2>2. J!OwnerOf(w) \in RecurringJobs
      BY <2>1, HeldJobs
    <2>3. CASE J!OwnerOf(w) # s
      <3>1. recurring'[s] = recurring[s]
        BY <1>a, <1>15, <2>2, <2>3 DEF J!CountDown, RowsTyped
      <3>2. QED
        BY <2>1, <2>3, <3>1, Quiet DEF Owing, Counting, J!OwnerOf
    <2>4. CASE J!OwnerOf(w) = s
      <3>1. /\ \A i \in Instances : instance[i].owner = s => instance[i].status \notin Open
            /\ \A v \in PoolThreads : runner[v].at \in {"run", "close", "read", "count"}
               /\ J!OwnerOf(v) = s => v = w
        BY <2>1, <2>4, CountedAlone
      <3>2. ~Counting(s)'
            /\ \A v \in PoolThreads : ~(runner'[v].at = "count" /\ J!OwnerOf(v)' = s)
        BY <2>1, <3>1 DEF Counting, J!OwnerOf
      <3>3. runner[w].left \in Nat
        BY <1>a, <1>b DEF RunnersTyped
      <3>4. CASE runner[w].left <= 1
        <4>1. ~recurring'[s].enabled /\ recurring'[s].present = recurring[s].present
              /\ recurring'[s].left = recurring[s].left
          BY <1>a, <1>15, <2>4, <3>4 DEF J!CountDown, RowsTyped
        <4>2. ~Owing(s)'
          BY <2>1, <3>1, <4>1 DEF Owing
        <4>3. Reach(s)' = Reach(s) /\ May(s)' = May(s)
          BY <2>1, <4>1 DEF Reach, May
        <4>4. QED
          BY <2>1, <3>2, <4>1, <4>2, <4>3 DEF Counted
      <3>5. CASE ~(runner[w].left <= 1)
        <4>1. /\ recurring'[s].enabled = recurring[s].enabled
              /\ recurring'[s].present = recurring[s].present
              /\ recurring'[s].left = runner[w].left - 1
          BY <1>a, <1>15, <2>4, <3>5 DEF J!CountDown, RowsTyped
        <4>2. CASE recurring[s].present
          <5>1. runner[w].left = recurring[s].left /\ Reach(s) <= May(s) + 1
            BY <2>1, <2>4, <4>2 DEF Counted
          <5>2. Reach(s)' <= May(s)' /\ May(s)' = May(s) /\ May(s) \in Nat /\ Reach(s)' \in Nat
            BY <1>b, <2>1, <4>1, <5>1 DEF Reach, May
          <5>3. QED
            BY <2>1, <3>2, <4>1, <5>2 DEF Counted
        <4>3. CASE ~recurring[s].present
          <5>1. ~Owing(s)'
            BY <2>1, <3>1, <4>1, <4>3 DEF Owing, HandRows
          <5>2. QED
            BY <2>1, <4>1, <4>3, <5>1 DEF Counted, May
        <4>4. QED
          BY <4>2, <4>3
      <3>6. QED
        BY <3>4, <3>5
    <2>5. QED
      BY <2>3, <2>4
  <1>16. ASSUME NEW k \in Instances,
               J!CancelInstance(k) \/ J!DeferInstance(k) \/ J!ResumeInstance(k)
                 \/ J!BackoffElapses(k)
        PROVE  Counted(s)'
    <2>1. /\ UNCHANGED <<runner, tally, recurring>> /\ instance[k].status \in Open
          /\ instance'[k].owner = instance[k].owner
          /\ \A m \in Instances : m # k => instance'[m] = instance[m]
      BY <1>a, <1>16 DEF J!CancelInstance, J!DeferInstance, J!ResumeInstance,
         J!BackoffElapses, J!Waiting, Open, JobsTyped
    <2>2. \A v \in PoolThreads : runner[v].at # "idle" => J!OwnerOf(v)' = J!OwnerOf(v)
      BY <2>1, HeldJobs DEF J!OwnerOf
    <2>3. Owing(s)' => Owing(s)
      BY <2>1 DEF Owing
    <2>4. QED
      BY <2>1, <2>2, <2>3, Quiet DEF Counting
  <1>17. CASE J!DaemonCrashes
    <2>1. \A w \in PoolThreads : runner'[w].at = "idle"
      BY <1>17 DEF J!DaemonCrashes, J!FreeThread
    <2>2. ~Counting(s) /\ tally'[s].done = tally[s].done /\ tally'[s].extra = tally[s].extra
      BY <1>a, <1>17 DEF J!DaemonCrashes, Counting, TallyTyped
    <2>3. \A i \in Instances : /\ instance'[i].owner = instance[i].owner
                               /\ instance'[i].status \in Open => instance[i].status \in Open
      BY <1>a, <1>17 DEF J!DaemonCrashes, JobsTyped, Open
    <2>4. Owing(s)' => Owing(s)
      <3>1. recurring' = recurring
        BY <1>17 DEF J!DaemonCrashes
      <3>2. ASSUME NEW i \in Instances, instance'[i].owner = s, instance'[i].status \in Open
            PROVE  instance[i].owner = s /\ instance[i].status \in Open
        BY <2>3, <3>2
      <3>3. QED
        BY <3>1, <3>2 DEF Owing, Open, J!Waiting
    <2>5. QED
      BY <1>17, <2>1, <2>2, <2>4, Quiet DEF J!DaemonCrashes
  <1>18. CASE J!PollerStep
    BY <1>2, <1>3, <1>8, <1>9, <1>18 DEF J!PollerStep, J!GetDueRecurringJobs,
       J!NothingAdmitted, J!Suspend, J!PromoteRaises, J!SkipDuplicate, J!ReadPending
  <1>19. CASE J!RunnerStep
    BY <1>11, <1>12, <1>13, <1>14, <1>15, <1>19 DEF J!RunnerStep
  <1>20. CASE J!OutsideStep
    BY <1>4, <1>5, <1>6, <1>8, <1>16, <1>20 DEF J!OutsideStep
  <1>21. QED
    BY <1>17, <1>18, <1>19, <1>20 DEF J!RecurringNext

-----------------------------------------------------------------------------
RecurringInv ==
    TypeInv /\ Working /\ HandRows /\ PromotedApart /\ FairAll

\* The invariant holds when the daemon starts.
LEMMA RecurringInvInit ==
  ASSUME J!RecurringAssumption, J!RecurringInit
  PROVE  RecurringInv
  <1> USE J!RecurringAssumption DEF J!RecurringAssumption, J!RecurringInit
  <1>1. RecurringTyped
    BY DEF RecurringTyped, RowsTyped, JobsTyped, PromoterTyped, RunnersTyped, TallyTyped,
       Bounded, J!Top, J!FreeThread, Steps
  <1>2. Held /\ Owned /\ Working /\ HandRows /\ PromotedApart
    BY DEF Held, Owned, Working, HandRows, PromotedApart, Alive, J!Top, J!FreeThread, Busy
  <1>3. ASSUME NEW s \in RecurringJobs PROVE OneUnended(s) /\ Counted(s)
    <2>1. OneUnended(s)
      BY DEF OneUnended, Unended, Open, J!Waiting, J!InHands, J!FreeThread
    <2>2. Reach(s) <= May(s) /\ tally[s].done <= May(s) /\ May(s) \in Nat
      BY DEF Reach, May
    <2>3. QED
      BY <2>1, <2>2 DEF Counted, J!FreeThread, J!OwnerOf, Reach, May
  <1>4. QED
    BY <1>1, <1>2, <1>3 DEF RecurringInv, TypeInv, FairAll, Fair

\* RecurringInv is inductive.
LEMMA RecurringInvKept ==
  ASSUME J!RecurringAssumption, RecurringInv, [J!RecurringNext]_(J!recurringVars)
  PROVE  RecurringInv'
  <1> USE DEF RecurringInv
  <1>1. CASE J!RecurringNext
    <2>1. TypeInv'
      BY <1>1, RecurringTypes, HeldKept, OwnedKept DEF TypeInv
    <2>2. Working' /\ HandRows' /\ PromotedApart'
      BY <1>1, WorkingKept, RowsKept, PromotedApartKept
    <2>3. FairAll'
      BY <1>1, TallyStays, OneUnendedKept, CountedKept DEF FairAll, Fair, TallyStay
    <2>4. QED
      BY <2>1, <2>2, <2>3
  <1>2. CASE UNCHANGED J!recurringVars
    BY <1>2 DEF J!recurringVars, TypeInv, RecurringTyped, RowsTyped, JobsTyped,
       PromoterTyped, RunnersTyped, TallyTyped, Bounded, Held, Owned, Working, HandRows,
       PromotedApart, Alive, FairAll, Fair, OneUnended, Counted, Unended, J!InHands, Owing,
       Counting, May, Reach, J!OwnerOf
  <1>3. QED
    BY <1>1, <1>2

\* RecurringInv says what is claimed of schedules.
LEMMA RecurringInvShows ==
  ASSUME J!RecurringAssumption, RecurringInv
  PROVE  J!RecurringTypeOK /\ J!ScheduleSound
  <1>1. J!RecurringTypeOK
    BY DEF RecurringInv, TypeInv, RecurringTyped, RowsTyped, JobsTyped, PromoterTyped,
       Bounded, J!RecurringTypeOK
  <1>2. J!PromotedOnce
    BY DEF RecurringInv, PromotedApart, Alive, J!PromotedOnce
  <1>3. J!LimitKept
    BY DEF RecurringInv, FairAll, Fair, Counted, May, J!LimitKept
  <1>4. QED
    BY <1>1, <1>2, <1>3 DEF J!ScheduleSound

\* Whatever the promoter, the workers and the endpoints do to each other, a schedule has one
\* promoted job at a time and is run as often as max_runs says, but for the named races
\* (Scheduler.promote_due_jobs, _update_recurring_next_run).
THEOREM Schedules == J!RecurringSpec => [](J!RecurringTypeOK /\ J!ScheduleSound)
  <1> J!RecurringAssumption
    BY DashboardAssumption DEF DashboardAssumption
  <1>1. J!RecurringInit => RecurringInv
    BY RecurringInvInit
  <1>2. RecurringInv /\ [J!RecurringNext]_(J!recurringVars) => RecurringInv'
    BY RecurringInvKept
  <1>3. RecurringInv => J!RecurringTypeOK /\ J!ScheduleSound
    BY RecurringInvShows
  <1>4. QED
    BY <1>1, <1>2, <1>3, PTL DEF J!RecurringSpec

-----------------------------------------------------------------------------
\* Deferrals: Deferral.

EntriesTyped ==
    entry \in [Deferrals -> [job : DeferJobs \union {NoOne},
                             when : {"absent", "unscheduled", "later", "past", "resumed"}]]
SweeperTyped ==
    sweeper \in [pc : {"pick", "sweep", "past", "resume", "new", "place", "admit"},
                 picked : DeferJobs \union {NoOne}, list : SUBSET Deferrals,
                 taken : Deferrals \union {NoOne}]
StatusTyped ==
    deferStatus \in [DeferJobs -> {"pending", "running", "deferred", "completed", "cancelled"}]
CountsTyped == processes \in [DeferJobs -> Nat] /\ ended \in [DeferJobs -> Nat]
RestTyped ==
    /\ commandOnly \subseteq DeferJobs /\ crossed \subseteq DeferJobs
    /\ toDefer \in DeferJobs \union {NoOne} /\ toResume \in Deferrals \union {NoOne}
    /\ sweepDue \in BOOLEAN /\ deferHalts \in 0..MaxDeferHalts

\* What the sweep or the user has looked at is an entry of a job.
LookedAt ==
    /\ \A d \in Deferrals : entry[d].when # "absent" => entry[d].job \in DeferJobs
    /\ \A d \in sweeper.list : entry[d].when # "absent"
    /\ sweeper.pc \in {"resume", "place"}
         => sweeper.taken \in Deferrals /\ entry[sweeper.taken].when # "absent"
    /\ toResume # NoOne => entry[toResume].when # "absent"

\* A row that nobody wrote from a status it had left says what its process did.
RowTells ==
    \A j \in DeferJobs \ crossed :
      /\ deferStatus[j] = "running" => processes[j] = 1 /\ ended[j] = 0
      /\ deferStatus[j] = "completed" => processes[j] = 0 /\ ended[j] = 1
      /\ deferStatus[j] \in {"pending", "deferred", "cancelled"}
           => processes[j] = 0 /\ ended[j] = 0

DeferralTyped == EntriesTyped /\ SweeperTyped /\ StatusTyped /\ CountsTyped /\ RestTyped
DeferralInv == DeferralTyped /\ LookedAt /\ L!DeferredHasEntry /\ RowTells /\ L!TwoNeedNoModel

\* A job that is deferred has an entry that was not there (defer_job).
LEMMA DeferTypes ==
  ASSUME L!DeferralAssumption, DeferralInv, NEW j \in DeferJobs, L!Defer(j)
  PROVE  /\ EntriesTyped' /\ StatusTyped'
         /\ crossed' \subseteq DeferJobs
         /\ crossed \subseteq crossed' /\ (deferStatus[j] # "pending" => j \in crossed')
         /\ \A k \in DeferJobs : k # j => deferStatus'[k] = deferStatus[k]
         /\ deferStatus'[j] = "deferred"
         /\ \E d \in Deferrals : /\ entry[d].when = "absent" /\ entry'[d].job = j
                                    /\ entry'[d].when = "unscheduled"
                                 /\ \A e \in Deferrals : e # d => entry'[e] = entry[e]
  <1>a. EntriesTyped /\ StatusTyped /\ crossed \subseteq DeferJobs
    BY DEF DeferralInv, DeferralTyped, RestTyped
  <1>1. PICK d \in Deferrals : /\ entry[d].when = "absent"
                               /\ entry' = [entry EXCEPT ![d] =
                                              [job |-> j, when |-> "unscheduled"]]
    BY DEF L!Defer
  <1>2. deferStatus' = [deferStatus EXCEPT ![j] = "deferred"]
        /\ L!Crosses(j, deferStatus[j] # "pending")
    BY DEF L!Defer
  <1>3. EntriesTyped' /\ entry'[d].job = j /\ entry'[d].when = "unscheduled"
        /\ \A e \in Deferrals : e # d => entry'[e] = entry[e]
    BY <1>a, <1>1 DEF EntriesTyped
  <1>4. StatusTyped' /\ deferStatus'[j] = "deferred" /\ \A k \in DeferJobs : k # j
          => deferStatus'[k] = deferStatus[k]
    BY <1>a, <1>2 DEF StatusTyped
  <1>5. crossed' \subseteq DeferJobs /\ crossed \subseteq crossed'
        /\ (deferStatus[j] # "pending" => j \in crossed')
    BY <1>a, <1>2 DEF L!Crosses
  <1>6. QED
    BY <1>1, <1>3, <1>4, <1>5

\* Deferring a job, from whatever status it was read in, keeps what is said of deferred jobs.
LEMMA DeferKeeps ==
  ASSUME L!DeferralAssumption, DeferralInv, NEW j \in DeferJobs, L!Defer(j),
         UNCHANGED <<processes, ended, commandOnly>>
  PROVE  L!DeferredHasEntry' /\ RowTells' /\ L!TwoNeedNoModel'
  <1>a. EntriesTyped /\ StatusTyped /\ LookedAt /\ L!DeferredHasEntry /\ RowTells
        /\ L!TwoNeedNoModel
    BY DEF DeferralInv, DeferralTyped
  <1>1. PICK d \in Deferrals : /\ entry[d].when = "absent" /\ entry'[d].job = j
                                  /\ entry'[d].when = "unscheduled"
                               /\ \A e \in Deferrals : e # d => entry'[e] = entry[e]
    BY DeferTypes
  <1>2. /\ crossed \subseteq crossed' /\ (deferStatus[j] # "pending" => j \in crossed')
        /\ \A k \in DeferJobs : k # j => deferStatus'[k] = deferStatus[k]
        /\ deferStatus'[j] = "deferred"
    BY DeferTypes
  <1>3. L!DeferredHasEntry'
    BY <1>a, <1>1, <1>2 DEF L!DeferredHasEntry, L!Open
  <1>4. RowTells'
    BY <1>a, <1>2 DEF RowTells
  <1>5. L!TwoNeedNoModel'
    BY <1>a DEF L!TwoNeedNoModel
  <1>6. QED
    BY <1>3, <1>4, <1>5

\* Resuming an entry, from whatever status its job has, keeps it too (resume_deferred_job).
LEMMA ResumeKeeps ==
  ASSUME L!DeferralAssumption, DeferralInv, NEW d \in Deferrals, entry[d].when # "absent",
         L!Resume(d),
         UNCHANGED <<processes, ended, commandOnly>>
  PROVE  /\ EntriesTyped' /\ StatusTyped' /\ crossed' \subseteq DeferJobs
         /\ L!DeferredHasEntry' /\ RowTells' /\ L!TwoNeedNoModel'
         /\ \A e \in Deferrals : entry'[e].job = entry[e].job
            /\ (entry[e].when # "absent" => entry'[e].when # "absent")
         /\ \A e \in Deferrals : e # d => entry'[e] = entry[e]
  <1>a. EntriesTyped /\ StatusTyped /\ LookedAt /\ L!DeferredHasEntry /\ RowTells
        /\ L!TwoNeedNoModel /\ crossed \subseteq DeferJobs
    BY DEF DeferralInv, DeferralTyped, RestTyped
  <1> DEFINE j == entry[d].job
  <1>1. j \in DeferJobs
    BY <1>a DEF LookedAt
  <1>2. /\ entry' = [entry EXCEPT ![d].when = "resumed"]
        /\ deferStatus' = [deferStatus EXCEPT ![j] = "pending"]
        /\ L!Crosses(j, deferStatus[j] # "deferred")
    BY DEF L!Resume
  <1> HIDE DEF j
  <1>3. /\ EntriesTyped' /\ entry'[d].when = "resumed"
        /\ \A e \in Deferrals : entry'[e].job = entry[e].job
        /\ \A e \in Deferrals : e # d => entry'[e] = entry[e]
    BY <1>a, <1>2 DEF EntriesTyped
  <1>4. StatusTyped' /\ deferStatus'[j] = "pending" /\ \A k \in DeferJobs : k # j
          => deferStatus'[k] = deferStatus[k]
    BY <1>a, <1>1, <1>2 DEF StatusTyped
  <1>5. crossed' \subseteq DeferJobs /\ crossed \subseteq crossed'
        /\ (deferStatus[j] # "deferred" => j \in crossed')
    BY <1>a, <1>1, <1>2 DEF L!Crosses
  <1>6. L!DeferredHasEntry'
    <2>1. ASSUME NEW k \in DeferJobs, deferStatus'[k] = "deferred"
          PROVE  \E e \in Deferrals : entry'[e].job = k /\ L!Open(e)'
      <3>1. k # j /\ deferStatus[k] = "deferred"
        BY <1>4, <2>1
      <3>2. PICK e \in Deferrals : entry[e].job = k /\ L!Open(e)
        BY <1>a, <3>1 DEF L!DeferredHasEntry
      <3>3. e # d
        BY <3>1, <3>2 DEF j
      <3>4. QED
        BY <1>3, <3>2, <3>3 DEF L!Open
    <2>2. QED
      BY <2>1 DEF L!DeferredHasEntry
  <1>7. RowTells'
    BY <1>a, <1>4, <1>5 DEF RowTells
  <1>8. L!TwoNeedNoModel'
    BY <1>a DEF L!TwoNeedNoModel
  <1>9. QED
    BY <1>3, <1>4, <1>5, <1>6, <1>7, <1>8

\* DeferralInv is inductive: the sweep, the poll thread, the endpoints and the crashes.
LEMMA DeferralInvKept ==
  ASSUME L!DeferralAssumption, DeferralInv, L!DeferralNext
  PROVE  DeferralInv'
  <1> USE DEF DeferralInv, DeferralTyped
  <1>a. /\ EntriesTyped /\ SweeperTyped /\ StatusTyped /\ CountsTyped /\ RestTyped /\ LookedAt
        /\ L!DeferredHasEntry /\ RowTells /\ L!TwoNeedNoModel
    OBVIOUS
  <1>b. ASSUME UNCHANGED L!rows, UNCHANGED <<commandOnly, processes, ended, crossed>>
        PROVE  EntriesTyped' /\ StatusTyped' /\ CountsTyped' /\ L!DeferredHasEntry' /\ RowTells'
               /\ L!TwoNeedNoModel'
    BY <1>a, <1>b DEF L!rows, EntriesTyped, StatusTyped, CountsTyped, L!DeferredHasEntry,
       RowTells, L!TwoNeedNoModel, L!Open
  <1>1. CASE L!ReadRow
    <2>1. SweeperTyped'
      BY <1>a, <1>1 DEF L!ReadRow, SweeperTyped, L!AtPick
    <2>2. RestTyped' /\ LookedAt'
      BY <1>a, <1>1 DEF L!ReadRow, RestTyped, LookedAt, L!AtPick, L!rows, L!fixed, L!runs
    <2>3. QED
      BY <1>1, <1>b, <2>1, <2>2 DEF L!ReadRow, L!rows, L!fixed, L!runs
  <1>2. CASE L!BeginPhase1 \/ L!BeginPhase2
    <2>1. SweeperTyped' 
      <3>1. {d \in Deferrals : entry[d].when = "past"} \in SUBSET Deferrals
            /\ {d \in Deferrals : entry[d].when = "unscheduled"} \in SUBSET Deferrals
        OBVIOUS
      <3>2. QED
        BY <1>a, <1>2, <3>1 DEF L!BeginPhase1, L!BeginPhase2, SweeperTyped
    <2>2. UNCHANGED L!rows /\ UNCHANGED L!fixed /\ UNCHANGED L!runs
          /\ sweeper'.pc \in {"past", "new"}
          /\ \A d \in sweeper'.list : entry[d].when # "absent"
      BY <1>a, <1>2 DEF L!BeginPhase1, L!BeginPhase2, SweeperTyped
    <2>3. RestTyped' /\ LookedAt'
      BY <1>a, <2>2 DEF RestTyped, LookedAt, L!rows, L!fixed, L!runs
    <2>4. QED
      BY <1>b, <2>1, <2>2, <2>3 DEF L!fixed, L!runs
  <1>3. CASE L!NoSweep \/ L!EndSweep \/ L!NotAdmitted
    <2>1. SweeperTyped' /\ sweeper'.pc \in {"pick", "admit"}
          /\ sweeper'.list \subseteq sweeper.list
      BY <1>a, <1>3 DEF L!NoSweep, L!EndSweep, L!NotAdmitted, SweeperTyped, L!AtPick
    <2>2. UNCHANGED L!rows /\ UNCHANGED <<commandOnly, toDefer, toResume, deferHalts>>
          /\ UNCHANGED L!runs /\ sweepDue' \in BOOLEAN
      BY <1>a, <1>3 DEF L!NoSweep, L!EndSweep, L!NotAdmitted, L!fixed, RestTyped
    <2>3. RestTyped' /\ LookedAt'
      BY <1>a, <2>1, <2>2 DEF RestTyped, LookedAt, L!rows, L!runs
    <2>4. QED
      BY <1>b, <2>1, <2>2, <2>3 DEF L!runs
  <1>4. ASSUME NEW d \in Deferrals, L!PassOver(d) \/ L!NoSlot(d) \/ L!Take(d) PROVE DeferralInv'
    <2>1. SweeperTyped' /\ sweeper'.list \subseteq sweeper.list 
      <3>1. sweeper.list \ {d} \in SUBSET Deferrals
        BY <1>a DEF SweeperTyped
      <3>2. QED
        BY <1>a, <1>4, <3>1 DEF L!PassOver, L!NoSlot, L!Take, SweeperTyped
    <2>2. UNCHANGED L!rows /\ UNCHANGED L!fixed /\ UNCHANGED L!runs /\ d \in sweeper.list
      BY <1>4 DEF L!PassOver, L!NoSlot, L!Take
    <2>3. sweeper'.pc \in {"resume", "place"} => sweeper'.taken = d
      BY <1>a, <1>4 DEF L!PassOver, L!NoSlot, L!Take, SweeperTyped
    <2>4. RestTyped' /\ LookedAt'
      BY <1>a, <2>1, <2>2, <2>3 DEF RestTyped, LookedAt, L!rows, L!fixed, L!runs
    <2>5. QED
      BY <1>b, <2>1, <2>2, <2>4 DEF L!fixed, L!runs
  <1>5. CASE L!ResumeTaken
    <2>1. sweeper.taken \in Deferrals /\ entry[sweeper.taken].when # "absent"
          /\ L!Resume(sweeper.taken)
          /\ UNCHANGED L!fixed /\ UNCHANGED <<processes, ended>>
      BY <1>a, <1>5 DEF L!ResumeTaken, LookedAt
    <2>2. SweeperTyped' /\ sweeper'.list = sweeper.list /\ sweeper'.pc \in {"past", "new"}
      BY <1>a, <1>5 DEF L!ResumeTaken, L!GoesOn, SweeperTyped
    <2>3. /\ EntriesTyped' /\ StatusTyped' /\ crossed' \subseteq DeferJobs
          /\ L!DeferredHasEntry' /\ RowTells' /\ L!TwoNeedNoModel'
          /\ \A e \in Deferrals : entry'[e].job = entry[e].job
             /\ (entry[e].when # "absent" => entry'[e].when # "absent")
          /\ \A e \in Deferrals : e # sweeper.taken => entry'[e] = entry[e]
      BY <2>1, ResumeKeeps DEF L!fixed
    <2>4. CountsTyped' /\ RestTyped'
      BY <1>a, <2>1, <2>3 DEF CountsTyped, RestTyped, L!fixed
    <2>5. LookedAt'
      <3>1. \A e \in Deferrals : entry'[e].when # "absent" => entry[e].when # "absent"
        BY <2>1, <2>3
      <3>2. QED
        BY <1>a, <2>1, <2>2, <2>3, <3>1 DEF LookedAt, SweeperTyped, RestTyped, L!fixed
    <2>6. QED
      BY <2>2, <2>3, <2>4, <2>5
  <1>6. CASE L!PlaceTaken
    <2>1. sweeper.taken \in Deferrals /\ entry[sweeper.taken].when # "absent"
          /\ UNCHANGED L!fixed /\ UNCHANGED L!runs /\ UNCHANGED deferStatus
      BY <1>a, <1>6 DEF L!PlaceTaken, LookedAt
    <2>2. SweeperTyped' /\ sweeper'.list = sweeper.list /\ sweeper'.pc \in {"past", "new"}
      BY <1>a, <1>6 DEF L!PlaceTaken, L!GoesOn, SweeperTyped
    <2>3. PICK t \in {"later", "past"} :
            entry' = [entry EXCEPT ![sweeper.taken].when = IF @ = "resumed" THEN @ ELSE t]
      BY <1>6 DEF L!PlaceTaken
    <2>4. /\ EntriesTyped'
          /\ \A e \in Deferrals : /\ entry'[e].job = entry[e].job
                                  /\ entry[e].when = "absent" <=> entry'[e].when = "absent"
                                  /\ entry[e].when = "resumed" <=> entry'[e].when = "resumed"
      BY <1>a, <2>1, <2>3 DEF EntriesTyped
    <2>5. \A e \in Deferrals : L!Open(e) => L!Open(e)'
      BY <1>a, <2>4 DEF L!Open, EntriesTyped
    <2>6. L!DeferredHasEntry' /\ RowTells' /\ L!TwoNeedNoModel' /\ CountsTyped' /\ StatusTyped'
          /\ RestTyped'
      BY <1>a, <2>1, <2>4, <2>5 DEF L!DeferredHasEntry, RowTells, L!TwoNeedNoModel,
         CountsTyped, StatusTyped, RestTyped, L!runs, L!fixed
    <2>7. LookedAt'
      BY <1>a, <2>1, <2>2, <2>4 DEF LookedAt, SweeperTyped, RestTyped, L!fixed
    <2>8. QED
      BY <2>2, <2>4, <2>6, <2>7
  <1>7. CASE L!DeferPicked
    <2>1. sweeper.picked \in DeferJobs /\ L!Defer(sweeper.picked)
          /\ UNCHANGED L!fixed /\ UNCHANGED <<processes, ended>> /\ sweeper' = L!AtPick
      BY <1>a, <1>7 DEF L!DeferPicked, SweeperTyped
    <2>2. /\ EntriesTyped' /\ StatusTyped' /\ crossed' \subseteq DeferJobs
          /\ \E d \in Deferrals : /\ entry[d].when = "absent" /\ entry'[d].job \in DeferJobs
                                     /\ entry'[d].when = "unscheduled"
                                  /\ \A e \in Deferrals : e # d => entry'[e] = entry[e]
      BY <2>1, DeferTypes
    <2>3. L!DeferredHasEntry' /\ RowTells' /\ L!TwoNeedNoModel'
      BY <2>1, DeferKeeps DEF L!fixed
    <2>4. SweeperTyped' /\ CountsTyped' /\ RestTyped'
      BY <1>a, <2>1, <2>2 DEF SweeperTyped, L!AtPick, CountsTyped, RestTyped, L!fixed
    <2>5. LookedAt'
      BY <1>a, <2>1, <2>2 DEF LookedAt, L!AtPick, L!fixed, RestTyped
    <2>6. QED
      BY <2>2, <2>3, <2>4, <2>5
  <1>8. CASE L!StartPicked
    <2> DEFINE j == sweeper.picked
    <2>1. /\ j \in DeferJobs /\ ~L!SameModelRuns(j) /\ UNCHANGED L!fixed
             /\ UNCHANGED <<entry, ended>> /\ sweeper' = L!AtPick
          /\ deferStatus' = [deferStatus EXCEPT ![j] = "running"]
          /\ processes' = [processes EXCEPT ![j] = @ + 1]
          /\ L!Crosses(j, deferStatus[j] # "pending")
      BY <1>a, <1>8 DEF L!StartPicked, SweeperTyped
    <2> HIDE DEF j
    <2>2. /\ StatusTyped' /\ deferStatus'[j] = "running"
          /\ \A k \in DeferJobs : k # j => deferStatus'[k] = deferStatus[k]
      BY <1>a, <2>1 DEF StatusTyped
    <2>3. /\ CountsTyped' /\ processes'[j] = processes[j] + 1
          /\ \A k \in DeferJobs : k # j => processes'[k] = processes[k]
      BY <1>a, <2>1 DEF CountsTyped
    <2>4. /\ crossed' \subseteq DeferJobs /\ crossed \subseteq crossed'
             /\ (deferStatus[j] # "pending" => j \in crossed')
      BY <1>a, <2>1 DEF L!Crosses, RestTyped
    <2>5. SweeperTyped' /\ EntriesTyped' /\ RestTyped' /\ LookedAt'
      BY <1>a, <2>1, <2>4 DEF SweeperTyped, EntriesTyped, RestTyped, LookedAt, L!AtPick,
         L!fixed
    <2>6. L!DeferredHasEntry'
      BY <1>a, <2>1, <2>2 DEF L!DeferredHasEntry, L!Open
    <2>7. RowTells'
      BY <1>a, <2>1, <2>2, <2>3, <2>4 DEF RowTells, CountsTyped
    <2>8. L!TwoNeedNoModel'
      BY <1>a, <2>1, <2>3 DEF L!TwoNeedNoModel, L!SameModelRuns, L!fixed, CountsTyped
    <2>9. QED
      BY <2>2, <2>3, <2>5, <2>6, <2>7, <2>8
  <1>9. ASSUME NEW j \in DeferJobs, L!ProcessEnds(j) PROVE DeferralInv'
    <2>1. /\ StatusTyped' /\ deferStatus'[j] = "completed"
          /\ \A k \in DeferJobs : k # j => deferStatus'[k] = deferStatus[k]
      BY <1>a, <1>9 DEF L!ProcessEnds, StatusTyped
    <2>2. /\ processes[j] \in Nat /\ processes[j] > 0 /\ processes'[j] = processes[j] - 1
          /\ processes' \in [DeferJobs -> Nat] 
          /\ \A k \in DeferJobs : k # j => processes'[k] = processes[k]
      <3>1. processes[j] - 1 \in Nat
        BY <1>a, <1>9 DEF L!ProcessEnds, CountsTyped
      <3>2. QED
        BY <1>a, <1>9, <3>1 DEF L!ProcessEnds, CountsTyped
    <2>3. /\ ended' \in [DeferJobs -> Nat] /\ ended'[j] = ended[j] + 1 /\ ended[j] \in Nat
          /\ \A k \in DeferJobs : k # j => ended'[k] = ended[k]
      BY <1>a, <1>9 DEF L!ProcessEnds, CountsTyped
    <2>4. UNCHANGED <<entry, sweeper, crossed>> /\ UNCHANGED L!fixed
      BY <1>9 DEF L!ProcessEnds
    <2>5. SweeperTyped' /\ EntriesTyped' /\ RestTyped' /\ LookedAt' /\ CountsTyped'
      BY <1>a, <2>2, <2>3, <2>4
         DEF SweeperTyped, EntriesTyped, RestTyped, LookedAt, CountsTyped, L!fixed
    <2>6. L!DeferredHasEntry'
      BY <1>a, <2>1, <2>4 DEF L!DeferredHasEntry, L!Open
    <2>7. RowTells'
      <3>1. j \notin crossed => deferStatus[j] = "running" /\ processes[j] = 1 /\ ended[j] = 0
        BY <1>a, <2>2 DEF RowTells, StatusTyped
      <3>2. QED
        BY <1>a, <2>1, <2>2, <2>3, <2>4, <3>1 DEF RowTells
    <2>8. L!TwoNeedNoModel'
      BY <1>a, <2>2, <2>4 DEF L!TwoNeedNoModel, L!fixed
    <2>9. QED
      BY <2>1, <2>5, <2>6, <2>7, <2>8
  <1>10. ASSUME NEW j \in DeferJobs, L!LookAtJob(j) PROVE DeferralInv'
    <2>1. RestTyped' /\ LookedAt' /\ SweeperTyped'
      BY <1>a, <1>10 DEF L!LookAtJob, RestTyped, LookedAt, SweeperTyped, L!rows, L!runs
    <2>2. QED
      BY <1>10, <1>b, <2>1 DEF L!LookAtJob, L!runs
  <1>11. CASE L!DeferLookedAt
    <2>1. toDefer \in DeferJobs /\ L!Defer(toDefer) /\ toDefer' = NoOne
          /\ UNCHANGED <<commandOnly, sweepDue, sweeper, toResume, processes, ended, deferHalts>>
      BY <1>a, <1>11 DEF L!DeferLookedAt, RestTyped
    <2>2. /\ EntriesTyped' /\ StatusTyped' /\ crossed' \subseteq DeferJobs
          /\ \E d \in Deferrals : /\ entry[d].when = "absent" /\ entry'[d].job \in DeferJobs
                                     /\ entry'[d].when = "unscheduled"
                                  /\ \A e \in Deferrals : e # d => entry'[e] = entry[e]
      BY <2>1, DeferTypes
    <2>3. L!DeferredHasEntry' /\ RowTells' /\ L!TwoNeedNoModel'
      BY <2>1, DeferKeeps
    <2>4. SweeperTyped' /\ CountsTyped' /\ RestTyped'
      BY <1>a, <2>1, <2>2 DEF SweeperTyped, CountsTyped, RestTyped
    <2>5. LookedAt'
      BY <1>a, <2>1, <2>2 DEF LookedAt, RestTyped, SweeperTyped
    <2>6. QED
      BY <2>2, <2>3, <2>4, <2>5
  <1>12. ASSUME NEW d \in Deferrals, L!LookAtDeferral(d) PROVE DeferralInv'
    <2>1. RestTyped' /\ LookedAt' /\ SweeperTyped'
      BY <1>a, <1>12 DEF L!LookAtDeferral, RestTyped, LookedAt, SweeperTyped, L!Open,
         L!rows, L!runs
    <2>2. QED
      BY <1>12, <1>b, <2>1 DEF L!LookAtDeferral, L!runs
  <1>13. CASE L!ResumeLookedAt
    <2>1. toResume \in Deferrals /\ entry[toResume].when # "absent" /\ L!Resume(toResume)
          /\ toResume' = NoOne
          /\ UNCHANGED <<commandOnly, sweepDue, sweeper, toDefer, processes, ended, deferHalts>>
      BY <1>a, <1>13 DEF L!ResumeLookedAt, LookedAt, RestTyped
    <2>2. /\ EntriesTyped' /\ StatusTyped' /\ crossed' \subseteq DeferJobs
          /\ L!DeferredHasEntry' /\ RowTells' /\ L!TwoNeedNoModel'
          /\ \A e \in Deferrals : entry'[e].job = entry[e].job
             /\ (entry[e].when # "absent" => entry'[e].when # "absent")
          /\ \A e \in Deferrals : e # toResume => entry'[e] = entry[e]
      BY <2>1, ResumeKeeps
    <2>3. SweeperTyped' /\ CountsTyped' /\ RestTyped'
      BY <1>a, <2>1, <2>2 DEF SweeperTyped, CountsTyped, RestTyped
    <2>4. LookedAt'
      <3>1. \A e \in Deferrals : entry'[e].when # "absent" => entry[e].when # "absent"
        BY <2>1, <2>2
      <3>2. QED
        BY <1>a, <2>1, <2>2, <3>1 DEF LookedAt, SweeperTyped
    <2>5. QED
      BY <2>2, <2>3, <2>4
  <1>14. ASSUME NEW j \in DeferJobs, L!CancelRow(j) PROVE DeferralInv'
    <2>1. /\ StatusTyped' /\ deferStatus[j] = "pending" /\ deferStatus'[j] = "cancelled"
          /\ \A k \in DeferJobs : k # j => deferStatus'[k] = deferStatus[k]
          /\ UNCHANGED L!fixed /\ UNCHANGED L!runs /\ UNCHANGED <<entry, sweeper>>
      BY <1>a, <1>14 DEF L!CancelRow, StatusTyped
    <2>2. RestTyped' /\ LookedAt' /\ SweeperTyped' /\ EntriesTyped' /\ CountsTyped'
          /\ L!TwoNeedNoModel'
      BY <1>a, <2>1 DEF RestTyped, LookedAt, SweeperTyped, EntriesTyped, CountsTyped,
         L!TwoNeedNoModel, L!fixed, L!runs
    <2>3. L!DeferredHasEntry'
      BY <1>a, <2>1 DEF L!DeferredHasEntry, L!Open
    <2>4. RowTells'
      BY <1>a, <2>1 DEF RowTells, L!runs
    <2>5. QED
      BY <2>1, <2>2, <2>3, <2>4
  <1>15. ASSUME NEW d \in Deferrals, L!ScheduledTimePasses(d) PROVE DeferralInv'
    <2>1. UNCHANGED L!fixed /\ UNCHANGED L!runs /\ UNCHANGED <<deferStatus, sweeper>>
      BY <1>15 DEF L!ScheduledTimePasses
    <2>2. /\ EntriesTyped'
          /\ \A e \in Deferrals : /\ entry'[e].job = entry[e].job
                                  /\ entry[e].when = "absent" <=> entry'[e].when = "absent"
                                  /\ L!Open(e) => L!Open(e)'
      BY <1>a, <1>15 DEF L!ScheduledTimePasses, EntriesTyped, L!Open
    <2>3. RestTyped' /\ SweeperTyped' /\ StatusTyped' /\ CountsTyped' /\ L!TwoNeedNoModel'
          /\ RowTells'
      BY <1>a, <2>1 DEF RestTyped, SweeperTyped, StatusTyped, CountsTyped,
         L!TwoNeedNoModel, RowTells, L!fixed, L!runs
    <2>4. L!DeferredHasEntry' /\ LookedAt'
      BY <1>a, <2>1, <2>2 DEF L!DeferredHasEntry, LookedAt, SweeperTyped, RestTyped, L!fixed
    <2>5. QED
      BY <2>2, <2>3, <2>4
  <1>16. CASE L!IntervalPasses
    <2>1. RestTyped' /\ LookedAt' /\ SweeperTyped'
      BY <1>a, <1>16 DEF L!IntervalPasses, RestTyped, LookedAt, SweeperTyped, L!rows, L!runs
    <2>2. QED
      BY <1>16, <1>b, <2>1 DEF L!IntervalPasses, L!runs
  <1>17. CASE L!ServiceRestarts
    <2>1. SweeperTyped' /\ RestTyped' /\ EntriesTyped' /\ LookedAt'
      BY <1>a, <1>17 DEF L!ServiceRestarts, SweeperTyped, RestTyped, EntriesTyped,
         LookedAt, L!AtPick, L!DeferralAssumption
    <2>2. CountsTyped' /\ L!TwoNeedNoModel'
      BY <1>a, <1>17 DEF L!ServiceRestarts, CountsTyped, L!TwoNeedNoModel
    <2>3. StatusTyped' /\ RowTells' /\ L!DeferredHasEntry'
      BY <1>a, <1>17 DEF L!ServiceRestarts, StatusTyped, RowTells, L!DeferredHasEntry,
         L!Open
    <2>4. QED
      BY <2>1, <2>2, <2>3
  <1>18. QED
    BY <1>1, <1>2, <1>3, <1>4, <1>5, <1>6, <1>7, <1>8, <1>9, <1>10, <1>11, <1>12, <1>13,
       <1>14, <1>15, <1>16, <1>17 DEF L!DeferralNext, L!PollThread, L!SweepStep

\* A step that changes nothing of deferrals keeps DeferralInv.
LEMMA DeferralInvStill ==
  ASSUME DeferralInv, UNCHANGED L!deferralVars
  PROVE  DeferralInv'
  BY DEF L!deferralVars, DeferralInv, DeferralTyped, EntriesTyped, SweeperTyped,
     StatusTyped, CountsTyped, RestTyped, LookedAt, L!DeferredHasEntry, L!Open, RowTells,
     L!TwoNeedNoModel

\* A deferred job has an entry that brings it back, and no job has two processes unless a row
\* was written from a status it had left (Deferral, DaemonLoop._check_deferred_resume).
THEOREM Deferring == L!DeferralSpec => [](L!DeferralTypeOK /\ L!DeferralSound)
  <1> L!DeferralAssumption
    BY DashboardAssumption DEF DashboardAssumption
  <1>1. L!DeferralInit => DeferralInv
    <2> SUFFICES ASSUME L!DeferralInit PROVE DeferralInv
      OBVIOUS
    <2> USE DEF L!DeferralInit, L!DeferralAssumption
    <2>1. EntriesTyped /\ SweeperTyped /\ StatusTyped /\ CountsTyped /\ RestTyped
      BY DEF EntriesTyped, SweeperTyped, StatusTyped, CountsTyped, RestTyped, L!AtPick
    <2>2. LookedAt /\ L!DeferredHasEntry /\ RowTells /\ L!TwoNeedNoModel
      BY DEF LookedAt, L!DeferredHasEntry, RowTells, L!TwoNeedNoModel, L!AtPick
    <2>3. QED
      BY <2>1, <2>2 DEF DeferralInv, DeferralTyped
  <1>2. DeferralInv /\ [L!DeferralNext]_(L!deferralVars) => DeferralInv'
    BY DeferralInvKept, DeferralInvStill
  <1>3. DeferralInv => L!DeferralTypeOK /\ L!DeferralSound
    <2> SUFFICES ASSUME DeferralInv PROVE L!DeferralTypeOK /\ L!DeferralSound
      OBVIOUS
    <2> USE DEF DeferralInv, DeferralTyped
    <2>1. L!DeferralTypeOK
      BY DEF EntriesTyped, SweeperTyped, StatusTyped, RestTyped, L!DeferralTypeOK
    <2>2. L!RunsAsOne
      BY DEF RowTells, L!RunsAsOne, StatusTyped, CountsTyped
    <2>3. QED
      BY <2>1, <2>2 DEF L!DeferralSound
  <1>4. QED
    BY <1>1, <1>2, <1>3, PTL DEF L!DeferralSpec

-----------------------------------------------------------------------------
\* The sessions of evaluation runs: EvalSession.

\* A promotion is a record.
PromotionsOK ==
    promotions \subseteq [run : EvalRuns, winner : EvalVariants, at : {"looked", "told"}]

\* A run that was stopped has a thread that will look, or none.
HeededInv ==
    \A r \in stopped : evalRow[r].status \in X!Stopped /\ session[r] \in X!InLoop \union {"none"}

\* Unless promotions crossed or one stopped half-way, they are of one variant; once one of
\* them has told lessons-db, that is the variant there, and before that the flags agree.
PromotionInv ==
    ~astray =>
      /\ \A p, q \in promotions : p.winner = q.winner
      /\ \A p \in promotions : p.at = "told" => lessonsDb = p.winner
      /\ (\A p \in promotions : p.at # "told") =>
            (lessonsDb \in catalog => production = {lessonsDb})

SessionInv == X!SessionTypeOK /\ PromotionsOK /\ HeededInv /\ X!WorkingHasSession /\ PromotionInv

\* Every step of sessions and promotions keeps the kinds of values.
LEMMA SessionTypes ==
  ASSUME X!SessionAssumption, X!SessionTypeOK, PromotionsOK, X!SessionNext
  PROVE  X!SessionTypeOK' /\ PromotionsOK'
  <1> USE DEF X!SessionTypeOK, PromotionsOK, X!Terminal, X!InLoop, X!elsewhere,
     X!promoting, X!SetStatus, X!Goes, X!Leaves
  <1>1. ASSUME NEW r \in EvalRuns, X!Trigger(r) \/ X!TriggerRefused(r) \/ X!RerunJudge(r)
        PROVE  X!SessionTypeOK' /\ PromotionsOK'
    BY <1>1 DEF X!Trigger, X!TriggerRefused, X!RerunJudge, X!Create
  <1>2. ASSUME NEW r \in EvalRuns,
               X!RerunStarts(r) \/ X!SessionFails(r) \/ X!BeginGenerate(r) \/ X!LookStops(r)
                 \/ X!HandToJudge(r)
        PROVE  X!SessionTypeOK' /\ PromotionsOK'
    BY <1>2 DEF X!RerunStarts, X!SessionFails, X!BeginGenerate, X!LookStops, X!HandToJudge
  <1>3. ASSUME NEW r \in EvalRuns,
               X!LookGoesOn(r) \/ X!ModelAnswers(r) \/ X!BeginJudge(r) \/ X!NotPromoted(r)
        PROVE  X!SessionTypeOK' /\ PromotionsOK'
    BY <1>3 DEF X!LookGoesOn, X!ModelAnswers, X!BeginJudge, X!NotPromoted, X!After
  <1>4. ASSUME NEW r \in EvalRuns, X!Complete(r) PROVE X!SessionTypeOK' /\ PromotionsOK'
    BY <1>4 DEF X!Complete
  <1>5. ASSUME NEW r \in EvalRuns, X!LookToPromote(r),
               UNCHANGED <<evalRow, canceller, recovering, stopped, evalHalts>>,
               session' = session \/ X!Leaves(r)
        PROVE X!SessionTypeOK' /\ PromotionsOK'
    <2>1. X!Begun(r) \in [run : EvalRuns, winner : EvalVariants, at : {"looked", "told"}]
      BY <1>5 DEF X!Begun, X!LookToPromote
    <2>2. QED
      BY <1>5, <2>1 DEF X!LookToPromote
  <1>6. ASSUME NEW r \in EvalRuns, X!LookToCancel(r) PROVE X!SessionTypeOK' /\ PromotionsOK'
    BY <1>6 DEF X!LookToCancel
  <1>7. CASE X!CancelRun
    BY <1>7 DEF X!CancelRun
  <1>8. CASE X!RecoverRuns
    BY <1>8 DEF X!RecoverRuns
  <1>9. CASE X!SessionsLost
    BY <1>9 DEF X!SessionsLost, X!SessionAssumption
  <1>10. ASSUME NEW p \in promotions, X!LessonsTold(p) \/ X!LessonsFail(p) \/ X!SetFlags(p)
         PROVE  X!SessionTypeOK' /\ PromotionsOK'
    BY <1>10 DEF X!LessonsTold, X!LessonsFail, X!SetFlags, X!notPromoting
  <1>11. ASSUME NEW v \in EvalVariants, X!DeleteVariant(v) PROVE X!SessionTypeOK' /\ PromotionsOK'
    BY <1>11 DEF X!DeleteVariant, X!notPromoting
  <1>12. QED
    BY <1>1, <1>2, <1>3, <1>4, <1>5, <1>6, <1>7, <1>8, <1>9, <1>10, <1>11
       DEF X!SessionNext, X!SessionStep, X!Promote, X!AutoPromote

\* A run that was stopped stays so, and one that works has a thread: no step of a session, of
\* its cancel or of the recovery says otherwise.
LEMMA StopsKept ==
  ASSUME X!SessionAssumption, X!SessionTypeOK, HeededInv, X!WorkingHasSession, X!SessionNext
  PROVE  HeededInv' /\ X!WorkingHasSession'
  <1> USE DEF X!SessionTypeOK, HeededInv, X!WorkingHasSession, X!Terminal, X!Stopped,
     X!InLoop, X!elsewhere, X!SetStatus, X!Goes, X!Leaves
  <1>1. ASSUME NEW r \in EvalRuns, X!Trigger(r) \/ X!TriggerRefused(r) \/ X!RerunJudge(r)
        PROVE  HeededInv' /\ X!WorkingHasSession'
    BY <1>1 DEF X!Trigger, X!TriggerRefused, X!RerunJudge, X!Create
  <1>2. ASSUME NEW r \in EvalRuns,
               X!RerunStarts(r) \/ X!SessionFails(r) \/ X!BeginGenerate(r) \/ X!LookStops(r)
                 \/ X!HandToJudge(r)
        PROVE  HeededInv' /\ X!WorkingHasSession'
    BY <1>2 DEF X!RerunStarts, X!SessionFails, X!BeginGenerate, X!LookStops, X!HandToJudge
  <1>3. ASSUME NEW r \in EvalRuns,
               X!LookGoesOn(r) \/ X!ModelAnswers(r) \/ X!BeginJudge(r) \/ X!NotPromoted(r)
        PROVE  HeededInv' /\ X!WorkingHasSession'
    BY <1>3 DEF X!LookGoesOn, X!ModelAnswers, X!BeginJudge, X!NotPromoted, X!After
  <1>4. ASSUME NEW r \in EvalRuns, X!Complete(r) PROVE HeededInv' /\ X!WorkingHasSession'
    BY <1>4 DEF X!Complete
  <1>5. ASSUME NEW r \in EvalRuns, X!Promote(r) \/ X!AutoPromote(r)
        PROVE  HeededInv' /\ X!WorkingHasSession'
    BY <1>5 DEF X!Promote, X!AutoPromote, X!LookToPromote
  <1>6. ASSUME NEW r \in EvalRuns, X!LookToCancel(r) PROVE HeededInv' /\ X!WorkingHasSession'
    BY <1>6 DEF X!LookToCancel
  <1>7. CASE X!CancelRun
    BY <1>7 DEF X!CancelRun
  <1>8. CASE X!RecoverRuns
    BY <1>8 DEF X!RecoverRuns
  <1>9. CASE X!SessionsLost
    BY <1>9 DEF X!SessionsLost
  <1>10. ASSUME NEW p \in promotions, X!LessonsTold(p) \/ X!LessonsFail(p) \/ X!SetFlags(p)
         PROVE  HeededInv' /\ X!WorkingHasSession'
    BY <1>10 DEF X!LessonsTold, X!LessonsFail, X!SetFlags, X!notPromoting
  <1>11. ASSUME NEW v \in EvalVariants, X!DeleteVariant(v)
         PROVE  HeededInv' /\ X!WorkingHasSession'
    BY <1>11 DEF X!DeleteVariant, X!notPromoting
  <1>12. QED
    BY <1>1, <1>2, <1>3, <1>4, <1>5, <1>6, <1>7, <1>8, <1>9, <1>10, <1>11
       DEF X!SessionNext, X!SessionStep

\* Unless two promotions cross, production and lessons-db go on to agree.
LEMMA PromotionKept ==
  ASSUME X!SessionAssumption, X!SessionTypeOK, PromotionsOK, PromotionInv, X!SessionNext
  PROVE  PromotionInv'
  <1> USE DEF X!SessionTypeOK, PromotionsOK, PromotionInv
  <1>1. CASE UNCHANGED X!promoting
    BY <1>1 DEF X!promoting
  <1>2. ASSUME NEW r \in EvalRuns, X!LookToPromote(r) PROVE PromotionInv'
    <2>1. X!Begun(r).winner = evalRow[r].winner /\ X!Begun(r).at = "looked"
      BY DEF X!Begun
    <2>2. QED
      BY <1>2, <2>1 DEF X!LookToPromote
  <1>3. CASE X!SessionsLost
    BY <1>3 DEF X!SessionsLost
  <1>4. ASSUME NEW p \in promotions, X!LessonsTold(p) PROVE PromotionInv'
    <2>1. /\ [p EXCEPT !.at = "told"].winner = p.winner
          /\ [p EXCEPT !.at = "told"].at = "told"
      OBVIOUS
    <2>2. QED
      BY <1>4, <2>1 DEF X!LessonsTold
  <1>5. ASSUME NEW p \in promotions, X!LessonsFail(p) PROVE PromotionInv'
    BY <1>5 DEF X!LessonsFail
  <1>6. ASSUME NEW p \in promotions, X!SetFlags(p) PROVE PromotionInv'
    BY <1>6 DEF X!SetFlags
  <1>7. ASSUME NEW v \in EvalVariants, X!DeleteVariant(v) PROVE PromotionInv'
    BY <1>7 DEF X!DeleteVariant
  <1>8. QED
    <2> USE DEF X!elsewhere, X!promoting
    <2>1. ASSUME NEW r \in EvalRuns,
                 X!Trigger(r) \/ X!TriggerRefused(r) \/ X!RerunJudge(r) \/ X!LookToCancel(r)
          PROVE  UNCHANGED X!promoting
      BY <2>1 DEF X!Trigger, X!TriggerRefused, X!RerunJudge, X!LookToCancel
    <2>2. ASSUME NEW r \in EvalRuns, X!SessionStep(r), ~X!AutoPromote(r)
          PROVE  UNCHANGED X!promoting
      BY <2>2 DEF X!SessionStep, X!RerunStarts, X!SessionFails, X!BeginGenerate,
         X!LookStops, X!LookGoesOn, X!ModelAnswers, X!HandToJudge, X!BeginJudge,
         X!Complete, X!NotPromoted
    <2>3. CASE X!CancelRun \/ X!RecoverRuns
      BY <1>1, <2>3 DEF X!CancelRun, X!RecoverRuns
    <2>4. ASSUME NEW r \in EvalRuns, X!Promote(r) \/ X!AutoPromote(r) PROVE X!LookToPromote(r)
      BY <2>4 DEF X!Promote, X!AutoPromote
    <2> HIDE DEF X!SessionTypeOK, PromotionsOK, PromotionInv, X!elsewhere, X!promoting
    <2>5. QED
      BY <1>1, <1>2, <1>3, <1>4, <1>5, <1>6, <1>7, <2>1, <2>2, <2>3, <2>4 DEF X!SessionNext

\* A stopped run stays stopped; none works without a session; production agrees with lessons-db.
THEOREM StopsAndPromotions == X!SessionSpec => [](X!SessionTypeOK /\ X!EvalSound)
  <1> X!SessionAssumption
    BY DashboardAssumption DEF DashboardAssumption
  <1>1. X!SessionInit => SessionInv
    <2> SUFFICES ASSUME X!SessionInit PROVE SessionInv
      OBVIOUS
    <2>1. X!SessionTypeOK /\ PromotionsOK
      <3>1. evalHalts \in 0..MaxEvalHalts
        BY X!SessionAssumption DEF X!SessionAssumption, X!SessionInit
      <3>2. lessonsDb \in EvalVariants \union {NoVariant} /\ production \subseteq catalog
        BY DEF X!SessionInit
      <3>3. QED
        BY <3>1, <3>2 DEF X!SessionInit, X!SessionTypeOK, PromotionsOK, X!Terminal, X!InLoop
    <2>2. HeededInv /\ X!WorkingHasSession
      BY DEF X!SessionInit, HeededInv, X!WorkingHasSession
    <2>3. PromotionInv
      BY X!SessionAssumption DEF X!SessionAssumption, X!SessionInit, PromotionInv
    <2>4. QED
      BY <2>1, <2>2, <2>3 DEF SessionInv
  <1>2. SessionInv /\ [X!SessionNext]_(X!sessionVars) => SessionInv'
    <2>1. ASSUME SessionInv, X!SessionNext PROVE SessionInv'
      BY <2>1, SessionTypes, StopsKept, PromotionKept, X!SessionAssumption DEF SessionInv
    <2>2. ASSUME SessionInv, UNCHANGED X!sessionVars PROVE SessionInv'
      BY <2>2 DEF SessionInv, X!sessionVars, X!promoting, X!SessionTypeOK, PromotionsOK,
         HeededInv, X!WorkingHasSession, PromotionInv
    <2>3. QED
      BY <2>1, <2>2
  <1>3. SessionInv => X!SessionTypeOK /\ X!EvalSound
    BY DEF SessionInv, X!EvalSound, HeededInv, X!StopHeeded, PromotionInv,
       X!ProductionAgrees
  <1>4. QED
    BY <1>1, <1>2, <1>3, PTL DEF X!SessionSpec

-----------------------------------------------------------------------------
\* A behaviour of the page is one of each of its widgets: a step that follows another widget
\* leaves the variables of this one alone.
LEMMA PageFollowsSchedules == Spec => J!RecurringSpec
  <1>1. Init => J!RecurringInit
    BY DEF Init
  <1>2. [Next]_vars => [J!RecurringNext]_(J!recurringVars)
    <2>1. ASSUME Next PROVE J!RecurringNext \/ UNCHANGED J!recurringVars
      BY <2>1 DEF Next, Follows, Others, J!recurringVars, recurringVars
    <2>2. ASSUME UNCHANGED vars PROVE UNCHANGED J!recurringVars
      BY <2>2 DEF vars, J!recurringVars, recurringVars
    <2>3. QED
      BY <2>1, <2>2
  <1>3. QED
    BY <1>1, <1>2, PTL DEF Spec, J!RecurringSpec

\* The same of the deferrals.
LEMMA PageFollowsDeferrals == Spec => L!DeferralSpec
  <1>1. Init => L!DeferralInit
    BY DEF Init
  <1>2. [Next]_vars => [L!DeferralNext]_(L!deferralVars)
    <2>1. ASSUME Next PROVE L!DeferralNext \/ UNCHANGED L!deferralVars
      BY <2>1 DEF Next, Follows, Others, L!deferralVars, deferralVars
    <2>2. ASSUME UNCHANGED vars PROVE UNCHANGED L!deferralVars
      BY <2>2 DEF vars, L!deferralVars, deferralVars
    <2>3. QED
      BY <2>1, <2>2
  <1>3. QED
    BY <1>1, <1>2, PTL DEF Spec, L!DeferralSpec

\* The same of the sessions.
LEMMA PageFollowsSessions == Spec => X!SessionSpec
  <1>1. Init => X!SessionInit
    BY DEF Init
  <1>2. [Next]_vars => [X!SessionNext]_(X!sessionVars)
    <2>1. ASSUME Next PROVE X!SessionNext \/ UNCHANGED X!sessionVars
      BY <2>1 DEF Next, Follows, Others, X!sessionVars, X!promoting, sessionsVars
    <2>2. ASSUME UNCHANGED vars PROVE UNCHANGED X!sessionVars
      BY <2>2 DEF vars, X!sessionVars, X!promoting, sessionsVars
    <2>3. QED
      BY <2>1, <2>2
  <1>3. QED
    BY <1>1, <1>2, PTL DEF Spec, X!SessionSpec

-----------------------------------------------------------------------------
\* SchedulingSound for every number of schedules, jobs and threads: one promoted job of a schedule
\* at a time, max_runs kept, a deferred job brought back and run as one, but for the races that
\* the model names.
THEOREM SchedulingHolds == Spec => []SchedulingSound
  <1>1. Spec => []J!ScheduleSound
    BY PageFollowsSchedules, Schedules, PTL
  <1>2. Spec => []L!DeferralSound
    BY PageFollowsDeferrals, Deferring, PTL
  <1>3. J!ScheduleSound /\ L!DeferralSound => SchedulingSound
    BY DEF SchedulingSound
  <1>4. QED
    BY <1>1, <1>2, <1>3, PTL

\* SessionsSound for every set of runs and variants: a run that is stopped while its session works
\* stays stopped, none works without a session, and one variant is in production here and in
\* lessons-db unless promotions crossed.
THEOREM SessionsHold == Spec => []SessionsSound
  <1>1. Spec => []X!EvalSound
    BY PageFollowsSessions, StopsAndPromotions, PTL
  <1>2. X!EvalSound => SessionsSound
    BY DEF SessionsSound
  <1>3. QED
    BY <1>1, <1>2, PTL
=============================================================================
