--------------------------- MODULE ProxyClaimProofs ---------------------------
(***************************************************************************)
(* Proofs about ProxyClaim for any number of requests, jobs and crashes.   *)
(***************************************************************************)
EXTENDS ProxyClaim, FiniteSetTheorems, TLAPS

\* The parts of TypeOK the proofs below need.
PlacesOK ==
    /\ status \in [Rows -> {"absent", "pending", "running", "completed", "failed"}]
    /\ proxy \in [Proxies -> {"new", "waiting", "claimed", "submitted", "requesting",
                              "recording", "releasing", "done"}]

\* The jobs table and the requests keep their types, and the daemon never
\* executes the row of a proxied request, not even one a crash left pending.
THEOREM NeverExecuted == Spec => [](PlacesOK /\ ProxyNeverExecuted)
  <1>1. Init => PlacesOK /\ ProxyNeverExecuted
    BY ProxyAssumption DEF Init, PlacesOK, ProxyNeverExecuted, At, Rows
  <1>2. PlacesOK /\ ProxyNeverExecuted /\ [Next]_vars => PlacesOK' /\ ProxyNeverExecuted'
    <2> SUFFICES ASSUME PlacesOK, ProxyNeverExecuted, [Next]_vars
                 PROVE  PlacesOK' /\ ProxyNeverExecuted'
      OBVIOUS
    <2> USE ProxyAssumption
        DEF PlacesOK, ProxyNeverExecuted, vars, daemonState, server, pollThread, At, AtTop, Rows
    <2>1. ASSUME NEW p \in Proxies, ProxyStep(p) PROVE PlacesOK' /\ ProxyNeverExecuted'
      <3>1. UNCHANGED <<held, poll>>
        BY <2>1 DEF ProxyStep, Arrive, TryClaim, Sleep, GiveUp, EnterBitnet, SubmitRow, SubmitRaises,
                    StartRow, RequestEnds, RequestCancelled, CompleteRow, Release
      <3>2. PlacesOK'
        BY <2>1 DEF ProxyStep, Arrive, TryClaim, Sleep, GiveUp, EnterBitnet, SubmitRow, SubmitRaises,
                    StartRow, RequestEnds, RequestCancelled, CompleteRow, Release, Step
      <3>3. QED
        BY <3>1, <3>2
    <2>2. CASE PollReads \/ PollIdles \/ PollPauses \/ Refuse \/ RefuseWrites \/ PollReturns
               \/ PollRaises \/ Publish
      BY <2>2 DEF PollReads, PollIdles, PollPauses, Refuse, RefuseWrites, PollReturns, PollRaises,
                  Publish
    <2>3. CASE PollPicks
      <3>1. PICK j \in Pending : poll' = At("picked", poll.seen, j)
        BY <2>3 DEF PollPicks
      <3>2. j \in Queued
        BY <3>1 DEF Pending
      <3>3. QED
        BY <2>3, <3>1, <3>2 DEF PollPicks
    <2>4. CASE Admit
      BY <2>4 DEF Admit
    <2>5. CASE StartJob
      BY <2>5 DEF StartJob
    <2>6. ASSUME NEW j \in Queued, JobEnds(j) PROVE PlacesOK' /\ ProxyNeverExecuted'
      BY <2>6 DEF JobEnds
    <2>7. CASE Pause \/ Resume
      BY <2>7 DEF Pause, Resume
    <2>8. CASE Crash
      BY <2>8 DEF Crash
    <2>9. CASE Restart \/ ListOrphans \/ RecoveryEnds
      BY <2>9 DEF Restart, ListOrphans, RecoveryEnds
    <2>10. ASSUME NEW r \in Rows, RecoverOrphan(r) PROVE PlacesOK' /\ ProxyNeverExecuted'
      BY <2>10 DEF RecoverOrphan
    <2>11. CASE UNCHANGED vars
      BY <2>11
    <2>12. QED
      BY <2>1, <2>2, <2>3, <2>4, <2>5, <2>6, <2>7, <2>8, <2>9, <2>10, <2>11
      DEF Next, PollStep, RecoveryStep
  <1>3. QED
    BY <1>1, <1>2, PTL DEF Spec

\* Unless submit_job raises, a sentinel always belongs to a request that will
\* release it: the poll thread may clear a claim too early, never leave one behind.
THEOREM ClaimAlwaysOwned ==
    ASSUME "submit" \notin Faults
    PROVE  Spec => []ClaimOwned
  <1>1. Init => ClaimOwned
    BY ProxyAssumption DEF Init, ClaimOwned
  <1>2. PlacesOK /\ ProxyNeverExecuted /\ ClaimOwned /\ [Next]_vars => ClaimOwned'
    <2> SUFFICES ASSUME PlacesOK, ProxyNeverExecuted, ClaimOwned, [Next]_vars PROVE ClaimOwned'
      OBVIOUS
    <2> USE ProxyAssumption
        DEF PlacesOK, ClaimOwned, Recovering, InFlight, vars, daemonState, server, pollThread,
            At, AtTop, Rows
    <2>1. ASSUME NEW p \in Proxies, ProxyStep(p) PROVE ClaimOwned'
      <3>1. CASE TryClaim(p) \/ EnterBitnet(p)
        BY <3>1 DEF TryClaim, EnterBitnet, Step
      <3>2. CASE Arrive(p) \/ Sleep(p) \/ GiveUp(p)
        BY <3>2 DEF Arrive, Sleep, GiveUp, Step
      <3>3. CASE SubmitRow(p) \/ StartRow(p) \/ RequestEnds(p)
        BY <3>3 DEF SubmitRow, StartRow, RequestEnds, Step
      <3>4. CASE SubmitRaises(p)
        BY <3>4 DEF SubmitRaises
      <3>5. CASE RequestCancelled(p) \/ CompleteRow(p)
        BY <3>5 DEF RequestCancelled, CompleteRow, Step
      <3>6. CASE Release(p)
        BY <3>6 DEF Release
      <3>7. QED
        BY <2>1, <3>1, <3>2, <3>3, <3>4, <3>5, <3>6 DEF ProxyStep
    <2>2. CASE PollStep
      BY <2>2 DEF PollStep, PollReads, PollPicks, PollIdles, PollPauses, Admit, Refuse, RefuseWrites,
                  StartJob, Publish, PollReturns, PollRaises, Write, ProxyNeverExecuted
    <2>3. ASSUME NEW j \in Queued, JobEnds(j) PROVE ClaimOwned'
      BY <2>3 DEF JobEnds
    <2>4. CASE Pause \/ Resume \/ Crash
      BY <2>4 DEF Pause, Resume, Crash
    <2>5. CASE RecoveryStep
      BY <2>5 DEF RecoveryStep, Restart, ListOrphans, RecoverOrphan, RecoveryEnds
    <2>6. CASE UNCHANGED vars
      BY <2>6
    <2>7. QED
      BY <2>1, <2>2, <2>3, <2>4, <2>5, <2>6 DEF Next
  <1>3. QED
    BY <1>1, <1>2, NeverExecuted, PTL DEF Spec

Claimants == InFlight \ Bitnet

\* The inductive strengthening of OneProxyInFlight.  A request in flight holds the
\* event loop, except while it waits for the backend, and then its row says
\* running: with one slot that row, not the sentinel, keeps the others out.
SerialInv ==
    /\ OneProxyInFlight
    /\ \A p \in Claimants : IF proxy[p] = "requesting" THEN status[p] = "running" ELSE loop = p
    /\ poll.pc = "down" \/ Recovering => Claimants = {}

\* With a single slot, and no request before orphan recovery is over, claims are
\* exclusive, although the poll thread may wipe out the sentinel of one in flight.
THEOREM ClaimsSerial ==
    ASSUME MaxSlots <= 1, EarlyRequests = FALSE, IsFiniteSet(Rows)
    PROVE  Spec => []OneProxyInFlight
  <1>1. Init => SerialInv
    BY DEF Init, SerialInv, OneProxyInFlight, Claimants, InFlight
  <1>2. PlacesOK /\ ProxyNeverExecuted /\ SerialInv /\ [Next]_vars => SerialInv'
    <2> SUFFICES ASSUME PlacesOK, ProxyNeverExecuted, SerialInv, [Next]_vars PROVE SerialInv'
      OBVIOUS
    <2> USE ProxyAssumption
        DEF PlacesOK, SerialInv, OneProxyInFlight, Recovering, Claimants, InFlight, vars,
            daemonState, server, pollThread, At, AtTop, Rows
    <2>1. ASSUME NEW p \in Proxies, ProxyStep(p) PROVE SerialInv'
      <3>1. poll.pc # "down" /\ ~Recovering /\ poll' = poll /\ loop \in {None, p}
        BY <2>1 DEF ProxyStep, Arrive, TryClaim, Sleep, GiveUp, EnterBitnet, SubmitRow, SubmitRaises,
                    StartRow, RequestEnds, RequestCancelled, CompleteRow, Release, Step, Serving
      <3>2. \A r \in Proxies : r # p => proxy'[r] = proxy[r] /\ status'[r] = status[r]
        BY <2>1 DEF ProxyStep, Arrive, TryClaim, Sleep, GiveUp, EnterBitnet, SubmitRow, SubmitRaises,
                    StartRow, RequestEnds, RequestCancelled, CompleteRow, Release, Step
      \* Whoever else is in flight waits for the backend: p has the event loop.
      <3>3. \A r \in Claimants : r # p => proxy[r] = "requesting" /\ status[r] = "running"
        BY <3>1
      <3>4. ASSUME p \in Claimants' => /\ p \in Claimants
                                       /\ IF proxy'[p] = "requesting"
                                          THEN status'[p] = "running" ELSE loop' = p
            PROVE  SerialInv'
        BY <3>1, <3>2, <3>3, <3>4
      <3>5. CASE TryClaim(p)
        <4>1. RunningRows = {}
          <5>1. IsFiniteSet(RunningRows)
            BY FS_Subset DEF RunningRows
          <5>2. Cardinality(RunningRows) \in Nat /\ Cardinality(RunningRows) < 1
            BY <3>5, <5>1, FS_CardinalityType DEF TryClaim, Claimable
          <5>3. QED
            BY <5>1, <5>2, FS_EmptySet
        <4>2. \A r \in Claimants : r = p
          BY <3>3, <4>1 DEF RunningRows
        <4>3. proxy'[p] = "claimed" /\ loop' = p
          BY <3>5 DEF TryClaim, Step
        <4>4. QED
          BY <3>1, <3>2, <4>2, <4>3
      <3>6. CASE EnterBitnet(p)
        BY <3>4, <3>6 DEF EnterBitnet, Step
      <3>7. CASE Arrive(p) \/ Sleep(p) \/ GiveUp(p) \/ SubmitRaises(p) \/ Release(p)
        BY <3>4, <3>7 DEF Arrive, Sleep, GiveUp, SubmitRaises, Release, Step
      <3>8. CASE SubmitRow(p) \/ StartRow(p) \/ RequestEnds(p)
        BY <3>4, <3>8 DEF SubmitRow, StartRow, RequestEnds, Step
      <3>9. CASE RequestCancelled(p) \/ CompleteRow(p)
        BY <3>4, <3>9 DEF RequestCancelled, CompleteRow, Step
      <3>10. QED
        BY <2>1, <3>5, <3>6, <3>7, <3>8, <3>9 DEF ProxyStep
    \* Everybody else leaves the requests alone, and their rows unless they recover.
    <2>2. ASSUME UNCHANGED <<proxy, loop>>, \A p \in Proxies : status'[p] = status[p],
                 poll'.pc = "down" \/ Recovering' => poll.pc = "down" \/ Recovering
          PROVE  SerialInv'
      BY <2>2
    <2>3. CASE PollStep
      BY <2>2, <2>3 DEF PollStep, PollReads, PollPicks, PollIdles, PollPauses, Admit, Refuse,
                        RefuseWrites, StartJob, Publish, PollReturns, PollRaises, ProxyNeverExecuted
    <2>4. ASSUME NEW j \in Queued, JobEnds(j) PROVE SerialInv'
      BY <2>2, <2>4 DEF JobEnds
    <2>5. CASE Pause \/ Resume
      BY <2>2, <2>5 DEF Pause, Resume
    <2>6. CASE Crash
      BY <2>6 DEF Crash
    <2>7. CASE Restart \/ ListOrphans \/ RecoveryEnds
      BY <2>2, <2>7 DEF Restart, ListOrphans, RecoveryEnds
    <2>8. ASSUME NEW r \in Rows, RecoverOrphan(r) PROVE SerialInv'
      BY <2>8 DEF RecoverOrphan
    <2>9. CASE UNCHANGED vars
      BY <2>9
    <2>10. QED
      BY <2>1, <2>3, <2>4, <2>5, <2>6, <2>7, <2>8, <2>9 DEF Next, RecoveryStep
  <1>3. SerialInv => OneProxyInFlight
    BY DEF SerialInv
  <1>4. QED
    BY <1>1, <1>2, <1>3, NeverExecuted, PTL DEF Spec
=============================================================================
