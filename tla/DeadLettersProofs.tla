-------------------------- MODULE DeadLettersProofs --------------------------
(***************************************************************************)
(* Proofs about DeadLetters for any number of jobs, sweeping threads and   *)
(* crashes.                                                                *)
(***************************************************************************)
EXTENDS DeadLetters, TLAPS

\* The two tables, the sweeps and the endpoint keep their types.
THEOREM DlqTypes == Spec => []TypeOK
  <1>1. Init => TypeOK
    BY DlqAssumption DEF Init, TypeOK, At, NoSweep
  <1>2. TypeOK /\ [Next]_vars => TypeOK'
    <2> SUFFICES ASSUME TypeOK, [Next]_vars PROVE TypeOK'
      OBVIOUS
    <2> USE DEF TypeOK, vars, dlq, sweeps, history, At, NoSweep
    <2>1. ASSUME NEW j \in Jobs, JobDies(j) \/ JobSucceeds(j) PROVE TypeOK'
      <3>1. CASE JobDies(j)
        BY <3>1 DEF JobDies
      <3>2. CASE JobSucceeds(j)
        BY <3>2 DEF JobSucceeds
      <3>3. QED
        BY <2>1, <3>1, <3>2
    <2>2. ASSUME NEW s \in Sweepers, SweepStep(s) PROVE TypeOK'
      <3>1. CASE BeginSweep(s) \/ EndSweep(s) \/ SweepRaises(s)
        <4>1. CASE BeginSweep(s)
          BY <4>1 DEF BeginSweep
        <4>2. CASE EndSweep(s)
          BY <4>2 DEF EndSweep
        <4>3. CASE SweepRaises(s)
          BY <4>3 DEF SweepRaises
        <4>4. QED
          BY <3>1, <4>1, <4>2, <4>3
      <3>2. CASE ListEntries(s)
        BY <3>2 DEF ListEntries, Unscheduled
      <3>3. ASSUME NEW e \in Jobs, SkipEntry(s, e) \/ TakeEntry(s, e) PROVE TypeOK'
        <4>1. CASE SkipEntry(s, e)
          BY <4>1 DEF SkipEntry
        <4>2. CASE TakeEntry(s, e)
          BY <4>2 DEF TakeEntry
        <4>3. QED
          BY <3>3, <4>1, <4>2
      <3>4. CASE MarkEntry(s)
        BY <3>4 DEF MarkEntry
      <3>5. ASSUME NEW n \in Jobs, SubmitJob(s, n) PROVE TypeOK'
        BY <3>5 DEF SubmitJob, CreateJob
      <3>6. CASE UpdateEntry(s)
        BY <3>6 DEF UpdateEntry, Rescheduled
      <3>7. QED
        BY <2>2, <3>1, <3>2, <3>3, <3>4, <3>5, <3>6 DEF SweepStep
    <2>3. ASSUME NEW e \in Jobs, NEW n \in Jobs, Retry(e, n) \/ ManualSubmit(e, n) PROVE TypeOK'
      BY <2>3 DEF Retry, ManualSubmit, CreateJob
    <2>4. ASSUME NEW e \in Jobs, Dismiss(e) PROVE TypeOK'
      BY <2>4 DEF Dismiss
    <2>5. CASE Clear \/ ManualUpdate \/ Crash
      BY <2>5 DEF Clear, ManualUpdate, Rescheduled, Crash
    <2>6. CASE UNCHANGED vars
      BY <2>6
    <2>7. QED
      BY <2>1, <2>2, <2>3, <2>4, <2>5, <2>6 DEF Next, ApiStep
  <1>3. QED
    BY <1>1, <1>2, PTL DEF Spec

\* Entry e will not be listed by a sweep any more.
Spent(e) == status[e] = "dead" /\ (e \in marked \/ e \notin entries)

\* Entry e is in the hands of the one active sweep and not resubmitted yet.
Fresh(e) == status[e] = "dead" /\ swept[e] = 0

\* The inductive strengthening of SweptOnce: only the holder of _sweep_lock is
\* active, what it has listed is fresh, and what it resubmits is marked before.
SweepInv ==
    /\ \A e \in entries : status[e] = "dead"
    /\ \A e \in Jobs : swept[e] = 0 \/ (swept[e] = 1 /\ Spent(e))
    /\ \A s \in Sweepers :
        /\ sweep[s].pc # "idle" => lock = s
        /\ todo[s] # {} => sweep[s].pc \notin {"idle", "list"}
        /\ \A e \in todo[s] : Fresh(e)
        /\ sweep[s].pc \in {"mark", "submit"} => Fresh(sweep[s].entry)
        /\ sweep[s].pc \in {"mark", "submit"} => sweep[s].entry \notin todo[s]
        /\ sweep[s].pc = "submit" => Spent(sweep[s].entry)

\* Whatever the threads, the crashes and the users do, the sweeps resubmit an entry
\* of the dead letter queue at most once.
THEOREM SweepsOnce == Spec => []SweptOnce
  <1>1. Init => SweepInv
    BY DlqAssumption DEF Init, SweepInv, At, NoSweep
  <1>2. TypeOK /\ SweepInv /\ [Next]_vars => SweepInv'
    <2> SUFFICES ASSUME TypeOK, SweepInv, [Next]_vars PROVE SweepInv'
      OBVIOUS
    <2> USE DlqAssumption
        DEF TypeOK, SweepInv, Spent, Fresh, vars, dlq, sweeps, history, At, NoSweep
    \* Steps outside the sweeps that only add marks or take dead entries away.
    <2>a. ASSUME UNCHANGED <<sweeps, swept>>,
                 \A e \in Jobs : status[e] = "dead" => status'[e] = "dead",
                 entries' \subseteq entries, marked \subseteq marked'
          PROVE  SweepInv'
      BY <2>a
    <2>b. ASSUME NEW n \in Jobs, NEW f \in Jobs, CreateJob(n, f)
          PROVE  \A e \in Jobs : status[e] = "dead" => status'[e] = "dead"
      BY <2>b DEF CreateJob
    <2>1. ASSUME NEW j \in Jobs, JobDies(j) PROVE SweepInv'
      <3>1. /\ status[j] = "pending" /\ status' = [status EXCEPT ![j] = "dead"]
            /\ entries' = entries \cup {j}
            /\ UNCHANGED <<sweeps, swept, marked>>
        BY <2>1 DEF JobDies
      <3>2. \A e \in Jobs : status[e] = "dead" => e # j /\ status'[e] = "dead"
        BY <3>1
      <3>3. \A e \in Jobs : Spent(e) => Spent(e)'
        BY <3>1, <3>2
      <3>4. \A e \in Jobs : Fresh(e) => Fresh(e)'
        BY <3>1, <3>2
      <3>5. QED
        BY <3>1, <3>2, <3>3, <3>4
    <2>2. ASSUME NEW j \in Jobs, JobSucceeds(j) PROVE SweepInv'
      BY <2>2, <2>a DEF JobSucceeds
    <2>3. ASSUME NEW s \in Sweepers, SweepStep(s) PROVE SweepInv'
      <3>1. CASE BeginSweep(s)
        BY <3>1 DEF BeginSweep
      <3>2. CASE ListEntries(s)
        BY <3>2 DEF ListEntries, Unscheduled
      <3>3. ASSUME NEW e \in Jobs, SkipEntry(s, e) \/ TakeEntry(s, e) PROVE SweepInv'
        BY <3>3 DEF SkipEntry, TakeEntry
      <3>4. CASE MarkEntry(s)
        BY <3>4 DEF MarkEntry
      <3>5. ASSUME NEW n \in Jobs, SubmitJob(s, n) PROVE SweepInv'
        <4> DEFINE f == sweep[s].entry
        <4>1. /\ f \in Jobs /\ Fresh(f) /\ Spent(f) /\ lock = s /\ f \notin todo[s]
              /\ swept' = [swept EXCEPT ![f] = @ + 1]
              /\ sweep' = [sweep EXCEPT ![s] = At("update", f)]
              /\ UNCHANGED <<dlq, lock, todo>>
          BY <3>5 DEF SubmitJob
        <4>2. \A e \in Jobs : status[e] = "dead" => status'[e] = "dead"
          BY <3>5, <4>1, <2>b DEF SubmitJob
        <4>3. \A u \in Sweepers : u # s => sweep'[u] = sweep[u] /\ sweep[u].pc = "idle"
          BY <4>1
        <4>4. \A u \in Sweepers : f \notin todo[u]
          BY <4>1, <4>3
        <4>5. \A e \in Jobs : Spent(e) => Spent(e)'
          BY <4>1, <4>2
        <4>6. \A e \in Jobs : Fresh(e) /\ e # f => Fresh(e)'
          BY <4>1, <4>2
        <4>7. swept'[f] = 1 /\ \A e \in Jobs : e # f => swept'[e] = swept[e]
          BY <4>1
        <4>8. QED
          BY <4>1, <4>2, <4>3, <4>4, <4>5, <4>6, <4>7
      <3>6. CASE UpdateEntry(s)
        BY <3>6 DEF UpdateEntry, Rescheduled
      <3>7. CASE EndSweep(s) \/ SweepRaises(s)
        BY <3>7 DEF EndSweep, SweepRaises
      <3>8. QED
        BY <2>3, <3>1, <3>2, <3>3, <3>4, <3>5, <3>6, <3>7 DEF SweepStep
    <2>4. ASSUME NEW e \in Jobs, NEW n \in Jobs, Retry(e, n) \/ ManualSubmit(e, n)
          PROVE  SweepInv'
      BY <2>4, <2>a, <2>b DEF Retry, ManualSubmit
    <2>5. ASSUME NEW e \in Jobs, Dismiss(e) PROVE SweepInv'
      BY <2>5, <2>a DEF Dismiss
    <2>6. CASE Clear \/ ManualUpdate
      BY <2>6, <2>a DEF Clear, ManualUpdate, Rescheduled
    <2>7. CASE Crash
      BY <2>7 DEF Crash
    <2>8. CASE UNCHANGED vars
      BY <2>8
    <2>9. QED
      BY <2>1, <2>2, <2>3, <2>4, <2>5, <2>6, <2>7, <2>8 DEF Next, ApiStep
  <1>3. TypeOK /\ SweepInv => SweptOnce
    BY DEF TypeOK, SweepInv, SweptOnce
  <1>4. QED
    BY <1>1, <1>2, <1>3, DlqTypes, PTL DEF Spec

\* The inductive strengthening of ResolvedHasJob: who is about to write "rescheduled",
\* a sweep or the endpoint, has created the job before.
JobInv ==
    /\ ResolvedHasJob
    /\ \A s \in Sweepers : sweep[s].pc = "update" => created[sweep[s].entry] >= 1
    /\ manual # None => created[manual] >= 1

\* Wherever a sweep, the endpoint or the process stops between its calls, an entry that
\* says retried or rescheduled has a job to show for it.
THEOREM ResolvedHaveJobs == Spec => []ResolvedHasJob
  <1>1. Init => JobInv
    BY DlqAssumption DEF Init, JobInv, ResolvedHasJob, At, NoSweep
  <1>2. TypeOK /\ JobInv /\ [Next]_vars => JobInv'
    <2> SUFFICES ASSUME TypeOK, JobInv, [Next]_vars PROVE JobInv'
      OBVIOUS
    <2> USE DlqAssumption
        DEF TypeOK, JobInv, ResolvedHasJob, vars, dlq, sweeps, history, At, NoSweep
    \* A job that is created adds to the entry it is for and takes from none.
    <2>a. ASSUME NEW n \in Jobs, NEW f \in Jobs, CreateJob(n, f)
          PROVE  /\ \A e \in Jobs : created'[e] \in Nat /\ created'[e] >= created[e]
                 /\ created'[f] >= 1
      BY <2>a DEF CreateJob
    <2>1. ASSUME NEW j \in Jobs, JobDies(j) \/ JobSucceeds(j) PROVE JobInv'
      BY <2>1 DEF JobDies, JobSucceeds
    <2>2. ASSUME NEW s \in Sweepers, SweepStep(s) PROVE JobInv'
      <3>1. CASE BeginSweep(s) \/ ListEntries(s) \/ EndSweep(s) \/ SweepRaises(s)
        BY <3>1 DEF BeginSweep, ListEntries, EndSweep, SweepRaises
      <3>2. ASSUME NEW e \in Jobs, SkipEntry(s, e) \/ TakeEntry(s, e) PROVE JobInv'
        BY <3>2 DEF SkipEntry, TakeEntry
      <3>3. CASE MarkEntry(s)
        BY <3>3 DEF MarkEntry
      <3>4. ASSUME NEW n \in Jobs, SubmitJob(s, n) PROVE JobInv'
        <4> DEFINE f == sweep[s].entry
        <4>1. /\ f \in Jobs /\ CreateJob(n, f) /\ sweep' = [sweep EXCEPT ![s] = At("update", f)]
              /\ UNCHANGED <<resolution, manual>>
          BY <3>4 DEF SubmitJob
        <4>2. /\ \A e \in Jobs : created'[e] \in Nat /\ created'[e] >= created[e]
              /\ created'[f] >= 1
          BY <4>1, <2>a
        <4>3. ResolvedHasJob' /\ (manual # None => created[manual] >= 1)'
          BY <4>1, <4>2
        <4>4. \A u \in Sweepers : sweep'[u].pc = "update" => created'[sweep'[u].entry] >= 1
          BY <4>1, <4>2
        <4>5. QED
          BY <4>3, <4>4
      <3>5. CASE UpdateEntry(s)
        BY <3>5 DEF UpdateEntry, Rescheduled
      <3>6. QED
        BY <2>2, <3>1, <3>2, <3>3, <3>4, <3>5 DEF SweepStep
    <2>3. ASSUME NEW e \in Jobs, NEW n \in Jobs, Retry(e, n) \/ ManualSubmit(e, n)
          PROVE  JobInv'
      <3>1. /\ \A f \in Jobs : created'[f] \in Nat /\ created'[f] >= created[f]
            /\ created'[e] >= 1
        BY <2>3, <2>a DEF Retry, ManualSubmit
      <3>2. CASE Retry(e, n)
        BY <3>1, <3>2 DEF Retry
      <3>3. CASE ManualSubmit(e, n)
        BY <3>1, <3>3 DEF ManualSubmit
      <3>4. QED
        BY <2>3, <3>2, <3>3
    <2>4. ASSUME NEW e \in Jobs, Dismiss(e) PROVE JobInv'
      BY <2>4 DEF Dismiss
    <2>5. CASE Clear \/ Crash
      BY <2>5 DEF Clear, Crash
    <2>6. CASE ManualUpdate
      BY <2>6 DEF ManualUpdate, Rescheduled
    <2>7. CASE UNCHANGED vars
      BY <2>7
    <2>8. QED
      BY <2>1, <2>2, <2>3, <2>4, <2>5, <2>6, <2>7 DEF Next, ApiStep
  <1>3. JobInv => ResolvedHasJob
    BY DEF JobInv
  <1>4. QED
    BY <1>1, <1>2, <1>3, DlqTypes, PTL DEF Spec
=============================================================================
